---- MODULE Spec2Model ----
(***************************************************************************)
(* Agent-readiness assessment: the check registry with its language        *)
(* adapter resolution and execution harness (lib/check-registry), and the  *)
(* scoring engine (lib/scoring).                                           *)
(*                                                                         *)
(* Conventions.  A JavaScript object is a record; an optional property is  *)
(* a field that is or is not in the record's DOMAIN.  A value that may be  *)
(* undefined is a sequence of length 0 or 1.  A Map is kept with its       *)
(* insertion order where the code iterates over it.  Numbers are exact     *)
(* rationals [n, d] (n / d, d > 0).                                        *)
(***************************************************************************)
EXTENDS Integers, Sequences, FiniteSets, TLC

VARIABLES
    checks,           \* CheckRegistry.checks: Map<string, RegisteredCheck>
    adapters,         \* CheckRegistry.adapters: Map<Language, LanguageAdapter>
    defaultAdapters,  \* CheckRegistry.defaultAdapters: Map<string, CheckRunner>
    ret,              \* what the registry's most recent call returned or threw
    invoked,          \* the runners the most recent call invoked
    scoringConfig,    \* main's scoringConfig: the ScoringConfig of the run
    results,          \* the CheckResultWithMeta[] collected for the application
    appScore,         \* calculateAppScore's result for it, once computed
    baseline,         \* the AppScore of the assessment before, when there was one
    recommendations,  \* getTopRecommendations' result for appScore, once called
    appScores,        \* main's appScores: one AppScore per application so far
    orgScore,         \* aggregateOrgScore's results, one per call
    scoreArg,         \* a score handed to scoreToLevel
    levelOut,         \* what scoreToLevel returned for it, once called
    options,          \* ctx.options of the run: skipTests, skipBuild
    waits,            \* one runWithTimeout race per check started: operation, timer, race
    timedResults,     \* the results produced so far, in the order the checks ran
    disk,             \* the file and the directory the cache is asked about
    fileCache,        \* createFileCache's closure: its Maps, hits and misses
    reads,            \* the calls of the cache's read methods, finished or in flight
    calls,            \* how many read calls started since the cache was last cleared
    cleanupHandlers,  \* signals: the registered cleanup functions
    isCleaningUp,     \* signals: the flag runCleanup sets while it runs
    handlersSetUp,    \* signals: whether setupSignalHandlers has installed the listeners
    cleaning,         \* the runCleanup call waiting for a cleanup function, if any
    completed,        \* the cleanup functions that have run to completion, in order
    delivered,        \* how many signals the process has received
    exited,           \* the code process.exit was called with, once it was
    clock,            \* Date.now(), in milliseconds
    rateLimiters,     \* fetch: Map<string, number>, the last request time per host
    fetches,          \* the fetchWithRetry calls, returned or under way
    running           \* the runAllChecks call, returned or under way, if any

registryVars == <<checks, adapters, defaultAdapters, ret, invoked>>

appVars == <<results, appScore, baseline, recommendations>>

orgVars == <<appScores, orgScore>>

classifyVars == <<scoreArg, levelOut>>

timeoutVars == <<options, waits, timedResults>>

cacheVars == <<disk, fileCache, reads, calls>>

signalVars ==
    <<cleanupHandlers, isCleaningUp, handlersSetUp, cleaning, completed, delivered, exited>>

fetchVars == <<clock, rateLimiters, fetches>>

runAllVars == <<running>>

ioVars == <<timeoutVars, cacheVars, signalVars, fetchVars, runAllVars>>

scoringVars == <<registryVars, scoringConfig, appVars, orgVars, classifyVars>>

vars == <<scoringVars, ioVars>>

otherThanTimeout == <<scoringVars, cacheVars, signalVars, fetchVars, runAllVars>>

otherThanCache == <<scoringVars, timeoutVars, signalVars, fetchVars, runAllVars>>

otherThanSignals == <<scoringVars, timeoutVars, cacheVars, fetchVars, runAllVars>>

otherThanFetch == <<scoringVars, timeoutVars, cacheVars, signalVars, runAllVars>>

otherThanRegistry ==
    <<scoringConfig, appVars, orgVars, classifyVars, timeoutVars, cacheVars, signalVars, fetchVars>>

TimeoutIdle ==
    /\ options = [skipTests |-> FALSE, skipBuild |-> FALSE]
    /\ waits = <<>>
    /\ timedResults = <<>>

\* createFileCache: empty Maps, hits = 0, misses = 0.
createFileCache ==
    [existsCache |-> <<>>, textCache |-> <<>>, jsonCache |-> <<>>, readdirCache |-> <<>>,
     hits |-> 0, misses |-> 0]

CacheIdle ==
    /\ disk = [file |-> "absent", dir |-> "absent"]
    /\ fileCache = createFileCache
    /\ reads = <<>>
    /\ calls = 0

\* The signals module as loaded.
SignalIdle ==
    /\ cleanupHandlers = <<>>
    /\ isCleaningUp = FALSE
    /\ handlersSetUp = FALSE
    /\ cleaning = <<>>
    /\ completed = <<>>
    /\ delivered = 0
    /\ exited = <<>>

\* Date.now() when the program starts.
StartTime == 1000000

\* The fetch module as loaded.
FetchIdle ==
    /\ clock = StartTime
    /\ rateLimiters = <<>>
    /\ fetches = <<>>

RunAllIdle == running = <<>>

IoIdle == TimeoutIdle /\ CacheIdle /\ SignalIdle /\ FetchIdle /\ RunAllIdle

Has(r, f) == f \in DOMAIN r

includes(arr, x) == \E i \in 1..Len(arr) : arr[i] = x

(***************************************************************************)
(* The registry's inputs.                                                  *)
(***************************************************************************)
Languages == {"go", "python"}

CheckIds == {"readme-exists", "tests-pass"}

PillarOfCheck(id) == IF id = "readme-exists" THEN "documentation" ELSE "testing"

LevelOfCheck(id) == IF id = "readme-exists" THEN 1 ELSE 2

\* Largest elapsed time (ms) the clock shows between start and completion.
MaxElapsed == 1

\* defineCheck: id, pillar, level and run, then the options (languages).
defineCheck(id, hasRun, langs) ==
    LET core == [id |-> id, pillar |-> PillarOfCheck(id), level |-> LevelOfCheck(id)]
        withRun == IF hasRun THEN core @@ [run |-> "builtin:" \o id] ELSE core
    IN  IF langs = <<"none">> THEN withRun ELSE withRun @@ [languages |-> langs]

LanguageLists == {<<"none">>, <<>>, <<"go">>, <<"python">>}

\* The definitions offered for registration: every allow-list with a built-in
\* runner, and a definition that carries no runner.
RegisteredChecks ==
    {defineCheck(id, TRUE, langs) : id \in CheckIds, langs \in LanguageLists}
    \cup {defineCheck(id, FALSE, <<"none">>) : id \in CheckIds}

\* Longest array handed to registerChecks.
MaxBatch == 2

\* The arrays handed to registerChecks: placeholder stubs and definitions
\* with a built-in runner, without allow-list.
Batches ==
    UNION {[1..k -> {defineCheck(id, hasRun, <<"none">>) : id \in CheckIds, hasRun \in BOOLEAN}] :
              k \in 0..MaxBatch}

\* checks/shared: the runners every adapter falls back to.
sharedChecks == [id \in {"readme-exists"} |-> "shared:" \o id]

AdapterConfigs ==
    { [language |-> "go", runners |-> [id \in {"tests-pass"} |-> "go:tests-pass"],
       excludeSharedChecks |-> <<>>],
      [language |-> "go", runners |-> [id \in {"readme-exists"} |-> "go:readme-exists"],
       excludeSharedChecks |-> <<>>],
      [language |-> "python", runners |-> [id \in {} |-> ""],
       excludeSharedChecks |-> <<"readme-exists">>],
      [language |-> "python", runners |-> [id \in CheckIds |-> "python:" \o id],
       excludeSharedChecks |-> <<"readme-exists">>] }

\* An adapter is the closure createLanguageAdapter returns: its configuration.
createLanguageAdapter(config) == config

AdapterGetRunner(adapter, checkId) ==
    IF checkId \in DOMAIN adapter.runners
    THEN <<adapter.runners[checkId]>>
    ELSE IF ~includes(adapter.excludeSharedChecks, checkId) /\ checkId \in DOMAIN sharedChecks
         THEN <<sharedChecks[checkId]>>
         ELSE <<>>

\* Object.keys: the own keys of an object.  The code's order is the order of
\* insertion; here it is one fixed order.
ObjectKeys(obj) ==
    SelectSeq(<<"readme-exists", "tests-pass">>, LAMBDA id : id \in DOMAIN obj)

listSharedChecks == ObjectKeys(sharedChecks)

\* supportedChecks listing every shared id, excluded or overridden.
supportedChecks_Unfiltered(adapter) ==
    ObjectKeys(adapter.runners) \o listSharedChecks

supportedChecks(adapter) ==
    LET languageChecks == ObjectKeys(adapter.runners)
        sharedCheckIds ==
            SelectSeq(listSharedChecks,
                      LAMBDA id : ~includes(adapter.excludeSharedChecks, id)
                                  /\ id \notin DOMAIN adapter.runners)
    IN  languageChecks \o sharedCheckIds

DefaultRunnerOf(checkId) == "default:" \o checkId

\* What a runner does when it is called: it returns a CheckResult or it throws.
RunnerBehaviours ==
    {[kind |-> "returns", result |-> [pass |-> p, details |-> <<"runner details">>]] : p \in BOOLEAN}
    \cup {[kind |-> "returns", result |-> [pass |-> TRUE, skipped |-> TRUE, details |-> <<"Skipped via --skip-tests">>]]}
    \cup {[kind |-> "throws", isError |-> e, message |-> m] : e \in BOOLEAN, m \in {"Timeout"}}

(***************************************************************************)
(* CheckRegistry                                                           *)
(***************************************************************************)
MapIndex(map, id) == {i \in 1..Len(map) : map[i].id = id}

MapHas(map, id) == MapIndex(map, id) /= {}

MapGet(map, id) == IF MapHas(map, id) THEN <<map[CHOOSE i \in MapIndex(map, id) : TRUE]>> ELSE <<>>

\* Map.set refusing to replace an entry.
MapSet_KeepsFirst(map, check) ==
    IF MapHas(map, check.id) THEN map ELSE Append(map, check)

MapSet(map, check) ==
    IF MapHas(map, check.id)
    THEN [map EXCEPT ![CHOOSE i \in MapIndex(map, check.id) : TRUE] = check]
    ELSE Append(map, check)

getCheck(id) == MapGet(checks, id)

\* Array.from(this.checks.values())
getAllChecks == checks

\* getChecksForLanguage without its filter.
getChecksForLanguage_Unfiltered(language) == getAllChecks

getChecksForLanguage(language) ==
    SelectSeq(getAllChecks,
              LAMBDA c : ~Has(c, "languages") \/ Len(c.languages) = 0
                         \/ includes(c.languages, language))

\* registerChecks: registerCheck on each element in turn.
RECURSIVE registerChecks(_, _)
registerChecks(map, batch) ==
    IF batch = <<>> THEN map
    ELSE MapSet(registerChecks(map, SubSeq(batch, 1, Len(batch) - 1)), batch[Len(batch)])

\* getRunner with the default runner table consulted before the language adapter.
getRunner_DefaultFirst(checkId, language) ==
    LET fromAdapter == IF language \in DOMAIN adapters
                       THEN AdapterGetRunner(adapters[language], checkId)
                       ELSE <<>>
        check == MapGet(checks, checkId)
    IN  IF checkId \in DOMAIN defaultAdapters THEN <<defaultAdapters[checkId]>>
        ELSE IF fromAdapter /= <<>> THEN fromAdapter
        ELSE IF check /= <<>> /\ Has(check[1], "run") THEN <<check[1].run>>
        ELSE <<>>

getRunner(checkId, language) ==
    LET fromAdapter == IF language \in DOMAIN adapters
                       THEN AdapterGetRunner(adapters[language], checkId)
                       ELSE <<>>
        check == MapGet(checks, checkId)
    IN  IF fromAdapter /= <<>> THEN fromAdapter
        ELSE IF checkId \in DOMAIN defaultAdapters THEN <<defaultAdapters[checkId]>>
        ELSE IF check /= <<>> /\ Has(check[1], "run") THEN <<check[1].run>>
        ELSE <<>>

\* The gate with its membership test inverted.
NotApplicable_Inverted(check, language) ==
    /\ Has(check, "languages")
    /\ Len(check.languages) > 0
    /\ includes(check.languages, language)

NotApplicable(check, language) ==
    /\ Has(check, "languages")
    /\ Len(check.languages) > 0
    /\ ~includes(check.languages, language)

\* The catch block reporting a fixed text whatever was thrown.
ErrorDetails_Fixed(thrown) == <<"Unknown error">>

\* error instanceof Error ? error.message : "Unknown error"
ErrorDetails(thrown) == IF thrown.isError THEN <<thrown.message>> ELSE <<"Unknown error">>

\* runCheck's outcome: what it returned or threw, and the runners it called.
runCheck(checkId, language, behaviour, elapsed) ==
    LET found == MapGet(checks, checkId)
        check == found[1]
        runner == getRunner(checkId, language)
    IN  IF found = <<>>
        THEN [kind |-> "threw", error |-> <<"Check", checkId, "not found">>, invoked |-> <<>>]
        ELSE IF NotApplicable(check, language)
        THEN [kind |-> "returned", invoked |-> <<>>,
              value |-> [pass |-> TRUE, skipped |-> TRUE,
                         details |-> <<"Not applicable to", language>>, check |-> check]]
        ELSE IF runner = <<>>
        THEN [kind |-> "returned", invoked |-> <<>>,
              value |-> [pass |-> FALSE,
                         details |-> <<"No runner for check", checkId, "and language", language>>,
                         check |-> check]]
        ELSE IF behaviour.kind = "returns"
        THEN [kind |-> "returned", invoked |-> runner,
              value |-> [check |-> check, durationMs |-> elapsed] @@ behaviour.result]
        ELSE [kind |-> "returned", invoked |-> runner,
              value |-> [pass |-> FALSE, details |-> ErrorDetails(behaviour),
                         check |-> check, durationMs |-> elapsed]]

(***************************************************************************)
(* Exact arithmetic on non-negative rationals.                             *)
(***************************************************************************)
RECURSIVE GCD(_, _)
GCD(a, b) == IF b = 0 THEN a ELSE GCD(b, a % b)

Frac(n, d) == LET g == GCD(n, d) IN [n |-> n \div g, d |-> d \div g]

Zero == [n |-> 0, d |-> 1]

FracAdd(a, b) == Frac(a.n * b.d + b.n * a.d, a.d * b.d)

FracTimes(a, k) == Frac(a.n * k, a.d)

FracOver(a, k) == Frac(a.n, a.d * k)

FracGE(a, b) == a.n * b.d >= b.n * a.d

FracEq(a, b) == a.n * b.d = b.n * a.d

\* Math.round(x * 10) / 10
RoundToTenth(x) == Frac((20 * x.n + x.d) \div (2 * x.d), 10)

(***************************************************************************)
(* lib/scoring                                                             *)
(***************************************************************************)
Pillars ==
    {"style", "build", "testing", "documentation", "devenv", "observability",
     "security", "taskdiscovery", "product"}

\* In tenths.
DEFAULT_PILLAR_WEIGHTS ==
    [p \in Pillars |->
        CASE p = "style" -> 10
          [] p = "build" -> 13
          [] p = "testing" -> 14
          [] p = "documentation" -> 15
          [] p = "devenv" -> 5
          [] p = "observability" -> 5
          [] p = "security" -> 8
          [] p = "taskdiscovery" -> 5
          [] p = "product" -> 3]

LEVEL_THRESHOLDS == <<<<80, 5>>, <<65, 4>>, <<50, 3>>, <<35, 2>>, <<0, 1>>>>

pillarOrder ==
    <<"style", "build", "testing", "documentation", "devenv", "observability",
      "security", "taskdiscovery", "product">>

indexOf(arr, x) == IF includes(arr, x) THEN (CHOOSE i \in 1..Len(arr) : arr[i] = x) - 1 ELSE -1

RECURSIVE scoreToLevelFrom(_, _)
scoreToLevelFrom(s, i) ==
    IF i > Len(LEVEL_THRESHOLDS) THEN 1
    ELSE IF FracGE(s, Frac(LEVEL_THRESHOLDS[i][1], 1)) THEN LEVEL_THRESHOLDS[i][2]
    ELSE scoreToLevelFrom(s, i + 1)

\* scoreToLevel comparing with > where the code compares with >=.
scoreToLevel_Exclusive(s) ==
    CHOOSE l \in 1..5 :
        \E i \in 1..Len(LEVEL_THRESHOLDS) :
            /\ LEVEL_THRESHOLDS[i][2] = l
            /\ (s.n > LEVEL_THRESHOLDS[i][1] * s.d \/ i = Len(LEVEL_THRESHOLDS))
            /\ \A j \in 1..(i - 1) : ~(s.n > LEVEL_THRESHOLDS[j][1] * s.d)

scoreToLevel(s) == scoreToLevelFrom(s, 1)

isSkipped(c) == Has(c, "skipped") /\ c.skipped

\* The keys of the Map byPillar (of the Set pillarSet), in insertion order.
RECURSIVE KeysInOrder(_)
KeysInOrder(ps) ==
    IF ps = <<>> THEN <<>>
    ELSE LET front == KeysInOrder(SubSeq(ps, 1, Len(ps) - 1))
             last == ps[Len(ps)]
         IN  IF includes(front, last) THEN front ELSE Append(front, last)

PillarsOf(cs) == [i \in 1..Len(cs) |-> cs[i].check.pillar]

\* Array.prototype.sort by pillarOrder index (stable insertion sort).
RECURSIVE SortByPillarOrder(_)
SortByPillarOrder(xs) ==
    IF xs = <<>> THEN <<>>
    ELSE LET front == SortByPillarOrder(SubSeq(xs, 1, Len(xs) - 1))
             x == xs[Len(xs)]
             k == Cardinality({i \in 1..Len(front) :
                     indexOf(pillarOrder, front[i].pillar) <= indexOf(pillarOrder, x.pillar)})
         IN  SubSeq(front, 1, k) \o <<x>> \o SubSeq(front, k + 1, Len(front))

\* The pillar score with skipped results left in the ratio.
PillarScoreOf_CountsSkipped(pillar, cs) ==
    LET pillarChecks == SelectSeq(cs, LAMBDA c : c.check.pillar = pillar)
        passed == Len(SelectSeq(pillarChecks, LAMBDA c : c.pass))
        total == Len(pillarChecks)
        sc == IF total > 0 THEN Frac(passed * 100, total) ELSE Zero
    IN  [pillar |-> pillar, score |-> sc, level |-> scoreToLevel(sc),
         passed |-> passed, total |-> total, checks |-> pillarChecks]

PillarScoreOf(pillar, cs) ==
    LET pillarChecks == SelectSeq(cs, LAMBDA c : c.check.pillar = pillar)
        applicable == SelectSeq(pillarChecks, LAMBDA c : ~isSkipped(c))
        passed == Len(SelectSeq(applicable, LAMBDA c : c.pass))
        total == Len(applicable)
        sc == IF total > 0 THEN Frac(passed * 100, total) ELSE Zero
    IN  [pillar |-> pillar, score |-> sc, level |-> scoreToLevel(sc),
         passed |-> passed, total |-> total, checks |-> pillarChecks]

calculatePillarScores(cs) ==
    LET keys == KeysInOrder(PillarsOf(cs))
    IN  SortByPillarOrder([i \in 1..Len(keys) |-> PillarScoreOf(keys[i], cs)])

RECURSIVE SumScores(_)
SumScores(ps) ==
    IF ps = <<>> THEN Zero ELSE FracAdd(SumScores(SubSeq(ps, 1, Len(ps) - 1)), ps[Len(ps)].score)

RECURSIVE MinLevel(_)
MinLevel(ps) ==
    IF Len(ps) = 1 THEN ps[1].level
    ELSE LET m == MinLevel(SubSeq(ps, 1, Len(ps) - 1))
         IN  IF ps[Len(ps)].level < m THEN ps[Len(ps)].level ELSE m

\* Strict mode deriving its level from the mean score, as the other modes do.
calculateStrict_FromMean(ps) ==
    IF Len(ps) = 0 THEN [level |-> 1, score |-> Zero]
    ELSE [level |-> scoreToLevel(FracOver(SumScores(ps), Len(ps))),
          score |-> RoundToTenth(FracOver(SumScores(ps), Len(ps)))]

calculateStrict(ps) ==
    IF Len(ps) = 0 THEN [level |-> 1, score |-> Zero]
    ELSE [level |-> MinLevel(ps), score |-> RoundToTenth(FracOver(SumScores(ps), Len(ps)))]

WeightOf(weights, pillar) == IF pillar \in DOMAIN weights THEN weights[pillar] ELSE 10

RECURSIVE WeightedSum(_, _)
WeightedSum(ps, weights) ==
    IF ps = <<>> THEN Zero
    ELSE FracAdd(WeightedSum(SubSeq(ps, 1, Len(ps) - 1), weights),
                 FracTimes(ps[Len(ps)].score, WeightOf(weights, ps[Len(ps)].pillar)))

\* The weighted sum divided by the number of pillars instead of the total weight.
TotalWeight_CountsPillars(ps, weights) == Len(ps) * 10

RECURSIVE TotalWeight(_, _)
TotalWeight(ps, weights) ==
    IF ps = <<>> THEN 0
    ELSE TotalWeight(SubSeq(ps, 1, Len(ps) - 1), weights) + WeightOf(weights, ps[Len(ps)].pillar)

calculateWeighted(ps, weights) ==
    IF Len(ps) = 0 THEN [level |-> 1, score |-> Zero]
    ELSE LET totalWeight == TotalWeight(ps, weights)
             sc == IF totalWeight > 0 THEN FracOver(WeightedSum(ps, weights), totalWeight) ELSE Zero
         IN  [level |-> scoreToLevel(sc), score |-> RoundToTenth(sc)]

\* calculateAverage without its guard for the empty list: 0 / 0 is NaN, which
\* no threshold admits and which rounding leaves NaN (written 0 / 0 here).
calculateAverage_Unguarded(ps) ==
    IF Len(ps) = 0 THEN [level |-> 1, score |-> [n |-> 0, d |-> 0]]
    ELSE LET avgScore == FracOver(SumScores(ps), Len(ps))
         IN  [level |-> scoreToLevel(avgScore), score |-> RoundToTenth(avgScore)]

calculateAverage(ps) ==
    IF Len(ps) = 0 THEN [level |-> 1, score |-> Zero]
    ELSE LET avgScore == FracOver(SumScores(ps), Len(ps))
         IN  [level |-> scoreToLevel(avgScore), score |-> RoundToTenth(avgScore)]

\* { ...DEFAULT_PILLAR_WEIGHTS, ...(config.pillarWeights ?? {}) }
MergedWeights(cfg) ==
    IF Has(cfg, "pillarWeights") THEN cfg.pillarWeights @@ DEFAULT_PILLAR_WEIGHTS
    ELSE DEFAULT_PILLAR_WEIGHTS

OverallScore(ps, cfg) ==
    CASE cfg.mode = "strict" -> calculateStrict(ps)
      [] cfg.mode = "average" -> calculateAverage(ps)
      [] OTHER -> calculateWeighted(ps, MergedWeights(cfg))

RECURSIVE SumDurations(_)
SumDurations(cs) ==
    IF cs = <<>> THEN 0
    ELSE SumDurations(SubSeq(cs, 1, Len(cs) - 1))
         + (IF Has(cs[Len(cs)], "durationMs") THEN cs[Len(cs)].durationMs ELSE 0)

calculateAppScore(app, cs, cfg) ==
    LET ps == calculatePillarScores(cs)
        result == OverallScore(ps, cfg)
    IN  [app |-> app, pillars |-> ps, level |-> result.level, score |-> result.score,
         checks |-> cs, durationMs |-> SumDurations(cs)]

DEFAULT_PASS_THRESHOLD == 80

RECURSIVE FlatPillars(_)
FlatPillars(apps) ==
    IF apps = <<>> THEN <<>>
    ELSE FlatPillars(SubSeq(apps, 1, Len(apps) - 1))
         \o [i \in 1..Len(apps[Len(apps)].pillars) |-> apps[Len(apps)].pillars[i].pillar]

\* app.pillars.find((p) => p.pillar === pillar): the first match, if any.
FindPillar(ps, pillar) ==
    LET hits == {i \in 1..Len(ps) : ps[i].pillar = pillar}
    IN  IF hits = {} THEN <<>> ELSE <<ps[CHOOSE i \in hits : \A j \in hits : i <= j]>>

RECURSIVE AppPillarScores(_, _)
AppPillarScores(apps, pillar) ==
    IF apps = <<>> THEN <<>>
    ELSE LET found == FindPillar(apps[Len(apps)].pillars, pillar)
             front == AppPillarScores(SubSeq(apps, 1, Len(apps) - 1), pillar)
         IN  IF found = <<>> THEN front ELSE Append(front, found[1].score)

RECURSIVE SumOf(_)
SumOf(xs) == IF xs = <<>> THEN Zero ELSE FracAdd(SumOf(SubSeq(xs, 1, Len(xs) - 1)), xs[Len(xs)])

\* The aggregated pillar taking its level from the average score.
AggregatedPillarOf_LevelOfAverage(pillar, apps, passThreshold) ==
    LET appPillarScores == AppPillarScores(apps, pillar)
        numerator == Len(SelectSeq(appPillarScores, LAMBDA s : FracGE(s, Frac(passThreshold, 1))))
        denominator == Len(appPillarScores)
        percentage == IF denominator > 0 THEN Frac(numerator * 100, denominator) ELSE Zero
        averageScore == IF Len(appPillarScores) > 0
                        THEN FracOver(SumOf(appPillarScores), Len(appPillarScores))
                        ELSE Zero
    IN  [pillar |-> pillar, numerator |-> numerator, denominator |-> denominator,
         percentage |-> percentage, level |-> scoreToLevel(RoundToTenth(averageScore)),
         averageScore |-> RoundToTenth(averageScore)]

\* The aggregated pillar counting only scores strictly above the threshold.
AggregatedPillarOf_StrictlyAbove(pillar, apps, passThreshold) ==
    LET appPillarScores == AppPillarScores(apps, pillar)
        numerator == Len(SelectSeq(appPillarScores, LAMBDA s : ~FracGE(Frac(passThreshold, 1), s)))
        denominator == Len(appPillarScores)
        percentage == IF denominator > 0 THEN Frac(numerator * 100, denominator) ELSE Zero
        averageScore == IF Len(appPillarScores) > 0
                        THEN FracOver(SumOf(appPillarScores), Len(appPillarScores))
                        ELSE Zero
    IN  [pillar |-> pillar, numerator |-> numerator, denominator |-> denominator,
         percentage |-> percentage, level |-> scoreToLevel(percentage),
         averageScore |-> RoundToTenth(averageScore)]

\* The aggregated pillar counting against 80 whatever threshold is configured.
AggregatedPillarOf_FixedThreshold(pillar, apps, passThreshold) ==
    LET appPillarScores == AppPillarScores(apps, pillar)
        numerator == Len(SelectSeq(appPillarScores, LAMBDA s : FracGE(s, Frac(80, 1))))
        denominator == Len(appPillarScores)
        percentage == IF denominator > 0 THEN Frac(numerator * 100, denominator) ELSE Zero
        averageScore == IF Len(appPillarScores) > 0
                        THEN FracOver(SumOf(appPillarScores), Len(appPillarScores))
                        ELSE Zero
    IN  [pillar |-> pillar, numerator |-> numerator, denominator |-> denominator,
         percentage |-> percentage, level |-> scoreToLevel(percentage),
         averageScore |-> RoundToTenth(averageScore)]

AggregatedPillarOf(pillar, apps, passThreshold) ==
    LET appPillarScores == AppPillarScores(apps, pillar)
        numerator == Len(SelectSeq(appPillarScores, LAMBDA s : FracGE(s, Frac(passThreshold, 1))))
        denominator == Len(appPillarScores)
        percentage == IF denominator > 0 THEN Frac(numerator * 100, denominator) ELSE Zero
        averageScore == IF Len(appPillarScores) > 0
                        THEN FracOver(SumOf(appPillarScores), Len(appPillarScores))
                        ELSE Zero
    IN  [pillar |-> pillar, numerator |-> numerator, denominator |-> denominator,
         percentage |-> percentage, level |-> scoreToLevel(percentage),
         averageScore |-> RoundToTenth(averageScore)]

\* The conversion handing the overall scorers the percentage as the score.
pillarScoresForCalc_Percentage(aggregatedPillars) ==
    [i \in 1..Len(aggregatedPillars) |->
        [pillar |-> aggregatedPillars[i].pillar,
         score |-> aggregatedPillars[i].percentage,
         level |-> scoreToLevel(aggregatedPillars[i].percentage),
         passed |-> aggregatedPillars[i].numerator,
         total |-> aggregatedPillars[i].denominator,
         checks |-> <<>>]]

\* The aggregated pillars in PillarScore format, for the overall scorers.
pillarScoresForCalc(aggregatedPillars) ==
    [i \in 1..Len(aggregatedPillars) |->
        [pillar |-> aggregatedPillars[i].pillar,
         score |-> aggregatedPillars[i].averageScore,
         level |-> scoreToLevel(aggregatedPillars[i].averageScore),
         passed |-> aggregatedPillars[i].numerator,
         total |-> aggregatedPillars[i].denominator,
         checks |-> <<>>]]

RECURSIVE AllChecks(_)
AllChecks(apps) ==
    IF apps = <<>> THEN <<>>
    ELSE AllChecks(SubSeq(apps, 1, Len(apps) - 1)) \o apps[Len(apps)].checks

\* The aggregation with tallies kept between calls: state outside the call.
aggregateOrgScore_KeepsTallies(apps, cfg) ==
    IF Len(apps) = 0
    THEN [apps |-> <<>>, pillars |-> <<>>, level |-> 1, score |-> Zero, mode |-> cfg.mode,
          totalChecks |-> 0, totalPassed |-> 0]
    ELSE LET passThreshold == IF Has(cfg, "passThreshold") THEN cfg.passThreshold
                              ELSE DEFAULT_PASS_THRESHOLD
             pillarSet == KeysInOrder(FlatPillars(apps))
             aggregatedPillars ==
                 SortByPillarOrder([i \in 1..Len(pillarSet) |->
                     AggregatedPillarOf(pillarSet[i], apps, passThreshold)])
             result == OverallScore(pillarScoresForCalc(aggregatedPillars), cfg)
             counted == SelectSeq(AllChecks(apps), LAMBDA c : ~isSkipped(c))
             kept == IF orgScore = <<>> THEN [totalChecks |-> 0, totalPassed |-> 0]
                     ELSE orgScore[Len(orgScore)]
         IN  [apps |-> apps, pillars |-> aggregatedPillars, level |-> result.level,
              score |-> result.score, mode |-> cfg.mode,
              totalChecks |-> kept.totalChecks + Len(counted),
              totalPassed |-> kept.totalPassed + Len(SelectSeq(counted, LAMBDA c : c.pass))]

\* The aggregation with the skipped results left in both tallies.
aggregateOrgScore_TalliesSkipped(apps, cfg) ==
    IF Len(apps) = 0
    THEN [apps |-> <<>>, pillars |-> <<>>, level |-> 1, score |-> Zero, mode |-> cfg.mode,
          totalChecks |-> 0, totalPassed |-> 0]
    ELSE LET passThreshold == IF Has(cfg, "passThreshold") THEN cfg.passThreshold
                              ELSE DEFAULT_PASS_THRESHOLD
             pillarSet == KeysInOrder(FlatPillars(apps))
             aggregatedPillars ==
                 SortByPillarOrder([i \in 1..Len(pillarSet) |->
                     AggregatedPillarOf(pillarSet[i], apps, passThreshold)])
             result == OverallScore(pillarScoresForCalc(aggregatedPillars), cfg)
             counted == AllChecks(apps)
         IN  [apps |-> apps, pillars |-> aggregatedPillars, level |-> result.level,
              score |-> result.score, mode |-> cfg.mode,
              totalChecks |-> Len(counted),
              totalPassed |-> Len(SelectSeq(counted, LAMBDA c : c.pass))]

aggregateOrgScore(apps, cfg) ==
    IF Len(apps) = 0
    THEN [apps |-> <<>>, pillars |-> <<>>, level |-> 1, score |-> Zero, mode |-> cfg.mode,
          totalChecks |-> 0, totalPassed |-> 0]
    ELSE LET passThreshold == IF Has(cfg, "passThreshold") THEN cfg.passThreshold
                              ELSE DEFAULT_PASS_THRESHOLD
             pillarSet == KeysInOrder(FlatPillars(apps))
             aggregatedPillars ==
                 SortByPillarOrder([i \in 1..Len(pillarSet) |->
                     AggregatedPillarOf(pillarSet[i], apps, passThreshold)])
             result == OverallScore(pillarScoresForCalc(aggregatedPillars), cfg)
             counted == SelectSeq(AllChecks(apps), LAMBDA c : ~isSkipped(c))
         IN  [apps |-> apps, pillars |-> aggregatedPillars, level |-> result.level,
              score |-> result.score, mode |-> cfg.mode,
              totalChecks |-> Len(counted),
              totalPassed |-> Len(SelectSeq(counted, LAMBDA c : c.pass))]

DEFAULT_LIMIT == 3

\* The failing, non-skipped checks of the pillars, pillar after pillar.
RECURSIVE failingChecks(_)
failingChecks(ps) ==
    IF ps = <<>> THEN <<>>
    ELSE LET pillarScore == ps[Len(ps)]
             failing == SelectSeq(pillarScore.checks, LAMBDA c : ~c.pass /\ ~isSkipped(c))
         IN  failingChecks(SubSeq(ps, 1, Len(ps) - 1))
             \o [i \in 1..Len(failing) |->
                    [pillar |-> pillarScore.pillar, check |-> failing[i].check,
                     weight |-> DEFAULT_PILLAR_WEIGHTS[pillarScore.pillar],
                     level |-> failing[i].check.level]]

\* weight * (6 - level), the weight in tenths.
ImpactScore(fc) == fc.weight * (6 - fc.level)

\* The sort by impact with an element put before those of equal impact.
RECURSIVE SortByImpact_TiesReversed(_)
SortByImpact_TiesReversed(xs) ==
    IF xs = <<>> THEN <<>>
    ELSE LET front == SortByImpact_TiesReversed(SubSeq(xs, 1, Len(xs) - 1))
             x == xs[Len(xs)]
             k == Cardinality({i \in 1..Len(front) : ImpactScore(front[i]) > ImpactScore(x)})
         IN  SubSeq(front, 1, k) \o <<x>> \o SubSeq(front, k + 1, Len(front))

\* failingChecks.sort((a, b) => bScore - aScore): descending and stable.
RECURSIVE SortByImpact(_)
SortByImpact(xs) ==
    IF xs = <<>> THEN <<>>
    ELSE LET front == SortByImpact(SubSeq(xs, 1, Len(xs) - 1))
             x == xs[Len(xs)]
             k == Cardinality({i \in 1..Len(front) : ImpactScore(front[i]) >= ImpactScore(x)})
         IN  SubSeq(front, 1, k) \o <<x>> \o SubSeq(front, k + 1, Len(front))

ImpactLabel(weight) == IF weight >= 12 THEN "high" ELSE IF weight >= 8 THEN "medium" ELSE "low"

getTopRecommendations(app, limit) ==
    LET sorted == SortByImpact(failingChecks(app.pillars))
        n == IF limit = <<>> THEN DEFAULT_LIMIT ELSE limit[1]
        top == SubSeq(sorted, 1, IF n < Len(sorted) THEN n ELSE Len(sorted))
    IN  [i \in 1..Len(top) |->
            [pillar |-> top[i].pillar, check |-> top[i].check,
             impact |-> ImpactLabel(top[i].weight),
             reason |-> <<"Improve", top[i].pillar, top[i].level>>]]

(***************************************************************************)
(* The scoring engine's inputs.                                            *)
(***************************************************************************)
\* Most check results collected for one application.
MaxChecks == 4

\* Most check results per application when several applications are aggregated.
MaxOrgChecks == 2

\* Most check results over all the applications of one run.
MaxOrgTotal == 4

\* Most times one run's application scores are aggregated.
MaxAggregations == 2

\* Largest denominator of the scores handed to scoreToLevel on its own.
MaxDenominator == 4

InputPillars == {"testing", "security"}

CheckResultOf(pillar, outcome) ==
    LET check == [pillar |-> pillar, level |-> 1]
    IN  CASE outcome = "pass" -> [pass |-> TRUE, check |-> check]
          [] outcome = "fail" -> [pass |-> FALSE, check |-> check]
          [] outcome = "skipped" -> [pass |-> TRUE, skipped |-> TRUE, check |-> check]

SkippedResults == {CheckResultOf(p, "skipped") : p \in InputPillars}

CheckResults == {CheckResultOf(p, o) : p \in InputPillars, o \in {"pass", "fail", "skipped"}}

SeqsUpTo(S, n) == UNION {[1..k -> S] : k \in 0..n}

ScoringModes == {"weighted", "strict", "average"}

\* config.pillarWeights, when given: tables overriding one pillar's weight.
PillarWeightTables == {[p \in {"security"} |-> 0], [p \in {"security"} |-> 30]}

\* config.pillarWeights giving every pillar the same weight (0 and 0.7).
EqualWeightTables == {[p \in Pillars |-> w] : w \in {0, 7}}

AppConfigs ==
    {[mode |-> m] : m \in ScoringModes}
    \cup {[mode |-> m, pillarWeights |-> w] : m \in ScoringModes, w \in PillarWeightTables}
    \cup {[mode |-> "weighted", pillarWeights |-> w] : w \in EqualWeightTables}

OrgConfigs ==
    {[mode |-> m, pillarWeights |-> DEFAULT_PILLAR_WEIGHTS] : m \in ScoringModes}
    \cup {[mode |-> m, pillarWeights |-> DEFAULT_PILLAR_WEIGHTS, passThreshold |-> 50] :
            m \in ScoringModes}

\* Most check results of the application whose reported score is examined.
MaxReportChecks == 6

ReportPillars == {"style", "testing", "documentation"}

ReportResults == {CheckResultOf(p, o) : p \in ReportPillars, o \in {"pass", "fail"}}

\* main's scoringConfig for --scoring weighted and --scoring average.
ReportConfigs == {[mode |-> m, pillarWeights |-> DEFAULT_PILLAR_WEIGHTS] : m \in {"weighted", "average"}}

\* Most check results of the application recommendations are drawn from.
MaxFindings == 4

\* Largest limit handed to getTopRecommendations.
MaxLimit == 2

\* Check definitions: two of impact 1.0 in different pillars, two of impact
\* 2.5 in different pillars, one of impact 5.6.
CatalogChecks ==
    { [id |-> "lint-config", pillar |-> "style", level |-> 5],
      [id |-> "env-template", pillar |-> "devenv", level |-> 4],
      [id |-> "devcontainer", pillar |-> "devenv", level |-> 1],
      [id |-> "logging", pillar |-> "observability", level |-> 1],
      [id |-> "unit-tests", pillar |-> "testing", level |-> 2] }

Findings ==
    {[pass |-> FALSE, check |-> c] : c \in CatalogChecks}
    \cup {[pass |-> TRUE, check |-> c] : c \in CatalogChecks}
    \cup {[pass |-> TRUE, skipped |-> TRUE, check |-> c] : c \in CatalogChecks}

\* The limit argument: left out, or given.
Limits == {<<>>} \cup {<<n>> : n \in 1..MaxLimit}

\* The applications discovery found, in its order.
DiscoveredApps == <<"api", "web", "cli">>

ClassifiedScores == {Frac(n, d) : n \in 0..(100 * MaxDenominator), d \in 1..MaxDenominator}

(***************************************************************************)
(* State machines.                                                         *)
(***************************************************************************)
NoCall == [op |-> "none"]

RegistryIdle ==
    /\ checks = <<>>
    /\ adapters = <<>>
    /\ defaultAdapters = <<>>
    /\ ret = NoCall
    /\ invoked = <<>>

AppIdle == results = <<>> /\ appScore = <<>> /\ baseline = <<>> /\ recommendations = <<>>

OrgIdle == appScores = <<>> /\ orgScore = <<>>

ClassifyIdle == scoreArg = Zero /\ levelOut = <<>>

\* The registry after construction.
Init ==
    /\ RegistryIdle
    /\ scoringConfig = [mode |-> "weighted"]
    /\ AppIdle
    /\ OrgIdle
    /\ IoIdle
    /\ ClassifyIdle

RegisterCheck ==
    \E check \in RegisteredChecks :
        /\ checks' = MapSet(checks, check)
        /\ ret' = [op |-> "registerCheck", check |-> check, kind |-> "returned"]
        /\ invoked' = <<>>
        /\ UNCHANGED <<adapters, defaultAdapters, scoringConfig, appVars, orgVars, classifyVars, ioVars>>

RegisterChecks ==
    \E batch \in Batches :
        /\ checks' = registerChecks(checks, batch)
        /\ ret' = [op |-> "registerChecks", batch |-> batch, kind |-> "returned"]
        /\ invoked' = <<>>
        /\ UNCHANGED <<adapters, defaultAdapters, scoringConfig, appVars, orgVars, classifyVars, ioVars>>

RegisterAdapter ==
    \E config \in AdapterConfigs :
        LET adapter == createLanguageAdapter(config)
        IN  /\ adapters' = (adapter.language :> adapter) @@ adapters
            /\ ret' = NoCall
            /\ invoked' = <<>>
            /\ UNCHANGED <<checks, defaultAdapters, scoringConfig, appVars, orgVars, classifyVars, ioVars>>

RegisterDefaultRunner ==
    \E checkId \in CheckIds :
        /\ defaultAdapters' = (checkId :> DefaultRunnerOf(checkId)) @@ defaultAdapters
        /\ ret' = NoCall
        /\ invoked' = <<>>
        /\ UNCHANGED <<checks, adapters, scoringConfig, appVars, orgVars, classifyVars, ioVars>>

RunCheck ==
    \E checkId \in CheckIds, language \in Languages,
       behaviour \in RunnerBehaviours, elapsed \in 0..MaxElapsed :
        LET out == runCheck(checkId, language, behaviour, elapsed)
        IN  /\ ret' = [op |-> "runCheck", checkId |-> checkId, language |-> language,
                       behaviour |-> behaviour, out |-> out]
            /\ invoked' = out.invoked
            /\ UNCHANGED <<checks, adapters, defaultAdapters, scoringConfig, appVars, orgVars,
                           classifyVars, ioVars>>

Clear ==
    /\ checks' = <<>>
    /\ adapters' = <<>>
    /\ defaultAdapters' = <<>>
    /\ ret' = NoCall
    /\ invoked' = <<>>
    /\ UNCHANGED <<scoringConfig, appVars, orgVars, classifyVars, ioVars>>

Next == RegisterCheck \/ RegisterChecks \/ RegisterAdapter \/ RegisterDefaultRunner \/ RunCheck \/ Clear

Spec == Init /\ [][Next]_vars

\* One application: its check results are collected, then it is scored.
InitScore ==
    /\ RegistryIdle
    /\ scoringConfig \in AppConfigs
    /\ AppIdle
    /\ OrgIdle
    /\ IoIdle
    /\ ClassifyIdle

PushResult ==
    \E result \in CheckResults :
        /\ appScore = <<>>
        /\ Len(results) < MaxChecks
        /\ results' = Append(results, result)
        /\ UNCHANGED <<registryVars, scoringConfig, appScore, baseline, recommendations, orgVars,
                       classifyVars, ioVars>>

CalculateAppScore ==
    /\ appScore = <<>>
    /\ appScore' = <<calculateAppScore("app", results, scoringConfig)>>
    /\ UNCHANGED <<registryVars, scoringConfig, results, baseline, recommendations, orgVars,
                   classifyVars, ioVars>>

\* The application is assessed again and one more check reports skipped.
Reassess ==
    \E skippedResult \in SkippedResults :
        /\ appScore /= <<>>
        /\ baseline = <<>>
        /\ Len(results) < MaxChecks
        /\ results' = Append(results, skippedResult)
        /\ baseline' = appScore
        /\ appScore' = <<calculateAppScore("app", results', scoringConfig)>>
        /\ UNCHANGED <<registryVars, scoringConfig, recommendations, orgVars, classifyVars, ioVars>>

NextScore == PushResult \/ CalculateAppScore \/ Reassess

SpecScore == InitScore /\ [][NextScore]_vars

\* main: every discovered application is scored, then the scores are aggregated.
InitOrg ==
    /\ RegistryIdle
    /\ scoringConfig \in OrgConfigs
    /\ AppIdle
    /\ OrgIdle
    /\ IoIdle
    /\ ClassifyIdle

ScoreApp ==
    \E cs \in SeqsUpTo(CheckResults, MaxOrgChecks) :
        /\ orgScore = <<>>
        /\ Len(appScores) < Len(DiscoveredApps)
        /\ Len(AllChecks(appScores)) + Len(cs) <= MaxOrgTotal
        /\ appScores' = Append(appScores,
               calculateAppScore(DiscoveredApps[Len(appScores) + 1], cs, scoringConfig))
        /\ UNCHANGED <<registryVars, scoringConfig, appVars, orgScore, classifyVars, ioVars>>

AggregateOrgScore ==
    /\ Len(orgScore) < MaxAggregations
    /\ orgScore' = Append(orgScore, aggregateOrgScore(appScores, scoringConfig))
    /\ UNCHANGED <<registryVars, scoringConfig, appVars, appScores, classifyVars, ioVars>>

NextOrg == ScoreApp \/ AggregateOrgScore

SpecOrg == InitOrg /\ [][NextOrg]_vars

\* scoreToLevel on its own, over the scores of [0, 100].
InitClassify ==
    /\ RegistryIdle
    /\ scoringConfig = [mode |-> "weighted"]
    /\ AppIdle
    /\ OrgIdle
    /\ IoIdle
    /\ scoreArg \in ClassifiedScores
    /\ levelOut = <<>>

ScoreToLevel ==
    /\ levelOut = <<>>
    /\ levelOut' = <<scoreToLevel(scoreArg)>>
    /\ UNCHANGED <<registryVars, scoringConfig, appVars, orgVars, scoreArg, ioVars>>

NextClassify == ScoreToLevel

SpecClassify == InitClassify /\ [][NextClassify]_vars

\* One application checked in three pillars, scored with the default weights.
InitReport ==
    /\ RegistryIdle
    /\ scoringConfig \in ReportConfigs
    /\ AppIdle
    /\ OrgIdle
    /\ IoIdle
    /\ ClassifyIdle

PushOutcome ==
    \E result \in ReportResults :
        /\ appScore = <<>>
        /\ Len(results) < MaxReportChecks
        /\ results' = Append(results, result)
        /\ UNCHANGED <<registryVars, scoringConfig, appScore, baseline, recommendations, orgVars,
                       classifyVars, ioVars>>

NextReport == PushOutcome \/ CalculateAppScore

SpecReport == InitReport /\ [][NextReport]_vars

\* One application: each check of the catalog runs at most once, the
\* application is scored, and its recommendations are drawn.
InitRecommend ==
    /\ RegistryIdle
    /\ scoringConfig = [mode |-> "weighted", pillarWeights |-> DEFAULT_PILLAR_WEIGHTS]
    /\ AppIdle
    /\ OrgIdle
    /\ IoIdle
    /\ ClassifyIdle

PushFinding ==
    \E result \in Findings :
        /\ appScore = <<>>
        /\ Len(results) < MaxFindings
        /\ \A j \in 1..Len(results) : results[j].check.id /= result.check.id
        /\ results' = Append(results, result)
        /\ UNCHANGED <<registryVars, scoringConfig, appScore, baseline, recommendations, orgVars,
                       classifyVars, ioVars>>

GetTopRecommendations ==
    \E limit \in Limits :
        /\ appScore /= <<>>
        /\ recommendations = <<>>
        /\ recommendations' = <<[limit |-> limit, out |-> getTopRecommendations(appScore[1], limit)]>>
        /\ UNCHANGED <<registryVars, scoringConfig, results, appScore, baseline, orgVars,
                       classifyVars, ioVars>>

NextRecommend == PushFinding \/ CalculateAppScore \/ GetTopRecommendations

SpecRecommend == InitRecommend /\ [][NextRecommend]_vars

(***************************************************************************)
(* runWithTimeout, and the runners that wait through it.  Time is counted  *)
(* in minutes: 120000 ms is 2, 180000 ms is 3.                             *)
(***************************************************************************)
\* The go adapter's runners that wait for an external tool under a timeout,
\* in the order the catalog runs them.
goSpecificRunners ==
    << [id |-> "build-succeeds", skipOption |-> "skipBuild", timeoutMs |-> 3,
        skipped |-> "Skipped via --skip-build",
        succeeded |-> "go build succeeded", failed |-> "go build failed"],
       [id |-> "tests-pass", skipOption |-> "skipTests", timeoutMs |-> 2,
        skipped |-> "Skipped via --skip-tests",
        succeeded |-> "All tests pass", failed |-> "Tests failed"] >>

\* A promise settles once: what settles a settled promise is ignored.
Settle(promise, outcome) == IF promise = "pending" THEN outcome ELSE promise

\* runWithTimeout without its timer: the race has the operation as its only entrant.
runWithTimeout_NoTimer(timeoutMs) ==
    [operation |-> "pending", timer |-> "none", remaining |-> 0, race |-> "pending"]

\* Promise.race([promise, new Promise((_, reject) => setTimeout(...))])
runWithTimeout(timeoutMs) ==
    [operation |-> "pending", timer |-> "armed", remaining |-> timeoutMs, race |-> "pending"]

\* A runner that returned before it started anything.
NoWait == [operation |-> "none", timer |-> "none", remaining |-> 0, race |-> "none"]

\* What the runner returns once its await has settled, with the check attached.
TimedResult(runner, race) ==
    IF race = "fulfilled"
    THEN [pass |-> TRUE, details |-> runner.succeeded, check |-> runner.id]
    ELSE [pass |-> FALSE, details |-> runner.failed, check |-> runner.id]

InitTimeout ==
    /\ RegistryIdle
    /\ scoringConfig = [mode |-> "weighted"]
    /\ AppIdle
    /\ OrgIdle
    /\ ClassifyIdle
    /\ options \in [{"skipTests", "skipBuild"} -> BOOLEAN]
    /\ waits = <<>>
    /\ timedResults = <<>>
    /\ CacheIdle
    /\ SignalIdle
    /\ FetchIdle
    /\ RunAllIdle

\* runAllChecks calls the next runner once the result before it is there.
StartCheck ==
    /\ Len(waits) = Len(timedResults)
    /\ Len(waits) < Len(goSpecificRunners)
    /\ LET runner == goSpecificRunners[Len(waits) + 1]
       IN  IF options[runner.skipOption]
           THEN /\ waits' = Append(waits, NoWait)
                /\ timedResults' = Append(timedResults,
                       [pass |-> TRUE, skipped |-> TRUE, details |-> runner.skipped,
                        check |-> runner.id])
           ELSE /\ waits' = Append(waits, runWithTimeout(runner.timeoutMs))
                /\ UNCHANGED timedResults
    /\ UNCHANGED <<otherThanTimeout, options>>

\* The external tool exits with status 0.
OperationFulfils(i) ==
    /\ waits[i].operation = "pending"
    /\ waits' = [waits EXCEPT ![i].operation = "fulfilled",
                              ![i].race = Settle(@, "fulfilled")]
    /\ UNCHANGED <<otherThanTimeout, options, timedResults>>

\* The external tool exits with another status, or cannot be started.
OperationRejects(i) ==
    /\ waits[i].operation = "pending"
    /\ waits' = [waits EXCEPT ![i].operation = "rejected",
                              ![i].race = Settle(@, "rejected: ShellError")]
    /\ UNCHANGED <<otherThanTimeout, options, timedResults>>

\* A minute passes on every timer that has not run out.
Tick ==
    /\ \E i \in 1..Len(waits) : waits[i].timer = "armed" /\ waits[i].remaining > 0
    /\ waits' = [i \in 1..Len(waits) |->
                    IF waits[i].timer = "armed" /\ waits[i].remaining > 0
                    THEN [waits[i] EXCEPT !.remaining = @ - 1]
                    ELSE waits[i]]
    /\ UNCHANGED <<otherThanTimeout, options, timedResults>>

\* setTimeout's callback: reject(new Error("Timeout")).
TimerExpires(i) ==
    /\ waits[i].timer = "armed"
    /\ waits[i].remaining = 0
    /\ waits' = [waits EXCEPT ![i].timer = "fired",
                              ![i].race = Settle(@, "rejected: Timeout")]
    /\ UNCHANGED <<otherThanTimeout, options, timedResults>>

\* The runner resumes after its await and returns; runCheck attaches the check
\* and runAllChecks pushes the result.
RunnerResumes ==
    /\ Len(timedResults) < Len(waits)
    /\ LET i == Len(timedResults) + 1
       IN  /\ waits[i].race \notin {"pending", "none"}
           /\ timedResults' = Append(timedResults, TimedResult(goSpecificRunners[i], waits[i].race))
    /\ UNCHANGED <<otherThanTimeout, options, waits>>

NextTimeout ==
    \/ StartCheck
    \/ \E i \in 1..Len(waits) : OperationFulfils(i)
    \/ \E i \in 1..Len(waits) : OperationRejects(i)
    \/ Tick
    \/ \E i \in 1..Len(waits) : TimerExpires(i)
    \/ RunnerResumes

\* The event loop runs every callback that is due and time passes; nothing
\* makes an external tool finish.
SpecTimeout ==
    /\ InitTimeout
    /\ [][NextTimeout]_vars
    /\ WF_vars(StartCheck)
    /\ WF_vars(Tick)
    /\ WF_vars(\E i \in 1..Len(waits) : TimerExpires(i))
    /\ WF_vars(RunnerResumes)

(***************************************************************************)
(* lib/file-cache.  A Map is a sequence of <<key, value>> entries; null is *)
(* the empty sequence and a value that is not null a sequence of one.      *)
(***************************************************************************)
\* Most calls of the cache's read methods in one run.
MaxReads == 3

FilePath == "/repo/app/package.json"

DirPath == "/repo/app/src"

\* path.resolve with the working directory /repo/app.
resolve(filepath) ==
    CASE filepath \in {"package.json", "./package.json", FilePath} -> FilePath
      [] filepath \in {"src", "src/../src", DirPath} -> DirPath

FileSpellings == {"package.json", "./package.json"}

DirSpellings == {"src", "src/../src"}

\* What is on disk: no file, a file holding JSON, a file holding text that
\* is not JSON, a file that cannot be opened; no directory, a directory.
Disks ==
    [file : {"absent", "json", "text", "unreadable"}, dir : {"absent", "present"}]

ReadMethods == {"exists", "text", "json", "readdir"}

\* Bun.file(p).exists()
BunFileExists(d) == d.file /= "absent"

\* Bun.file(p).text(): the content, or a rejection.
BunFileText(d) ==
    CASE d.file = "json" -> [threw |-> FALSE, value |-> "{\"name\": \"app\"}"]
      [] d.file = "text" -> [threw |-> FALSE, value |-> "# app"]
      [] OTHER -> [threw |-> TRUE]

\* Bun.file(p).json(): the parsed content, or a rejection.
BunFileJson(d) ==
    IF d.file = "json" THEN [threw |-> FALSE, value |-> [name |-> "app"]]
    ELSE [threw |-> TRUE]

\* fs.readdirSync(p): the entries, or an exception.
readdirSync(d) ==
    IF d.dir = "present" THEN [threw |-> FALSE, value |-> <<"index.ts", "lib">>]
    ELSE [threw |-> TRUE]

CacheIndex(map, key) == {i \in 1..Len(map) : map[i][1] = key}

CacheHas(map, key) == CacheIndex(map, key) /= {}

CacheGet(map, key) == map[CHOOSE i \in CacheIndex(map, key) : TRUE][2]

\* Map.set leaving the Map as it is.
CacheSet_Dropped(map, key, value) == map

CacheSet(map, key, value) ==
    IF CacheHas(map, key)
    THEN [i \in 1..Len(map) |-> IF map[i][1] = key THEN <<key, value>> ELSE map[i]]
    ELSE Append(map, <<key, value>>)

CacheOf(method) ==
    CASE method = "exists" -> "existsCache"
      [] method = "text" -> "textCache"
      [] method = "json" -> "jsonCache"
      [] method = "readdir" -> "readdirCache"

\* stats()
stats ==
    [existsCached |-> Len(fileCache.existsCache),
     textCached |-> Len(fileCache.textCache),
     jsonCached |-> Len(fileCache.jsonCache),
     readdirCached |-> Len(fileCache.readdirCache),
     hits |-> fileCache.hits,
     misses |-> fileCache.misses]

\* What the read, after its last await, stores and returns.
Fetched(method) ==
    CASE method = "text" ->
             IF BunFileText(disk).threw THEN <<>> ELSE <<BunFileText(disk).value>>
      [] method = "json" ->
             IF BunFileJson(disk).threw THEN <<>> ELSE <<BunFileJson(disk).value>>

InitCache ==
    /\ RegistryIdle
    /\ scoringConfig = [mode |-> "weighted"]
    /\ AppIdle
    /\ OrgIdle
    /\ ClassifyIdle
    /\ TimeoutIdle
    /\ SignalIdle
    /\ FetchIdle
    /\ RunAllIdle
    /\ disk \in Disks
    /\ fileCache = createFileCache
    /\ reads = <<>>
    /\ calls = 0

\* exists, text and json up to their first await: a hit returns the entry,
\* a miss counts itself and starts Bun.file(normalized).exists().
CallRead ==
    \E method \in {"exists", "text", "json"}, filepath \in FileSpellings :
        LET normalized == resolve(filepath)
            map == fileCache[CacheOf(method)]
        IN  /\ Len(reads) < MaxReads
            /\ calls' = calls + 1
            /\ IF CacheHas(map, normalized)
               THEN /\ fileCache' = [fileCache EXCEPT !.hits = @ + 1]
                    /\ reads' = Append(reads,
                           [method |-> method, normalized |-> normalized, pc |-> "returned",
                            io |-> 0, hit |-> TRUE, out |-> <<CacheGet(map, normalized)>>])
               ELSE /\ fileCache' = [fileCache EXCEPT !.misses = @ + 1]
                    /\ reads' = Append(reads,
                           [method |-> method, normalized |-> normalized, pc |-> "exists",
                            io |-> 1, hit |-> FALSE, out |-> <<>>])
            /\ UNCHANGED <<otherThanCache, disk>>

\* readdir: synchronous from its call to its return.
CallReaddir ==
    \E dirpath \in DirSpellings :
        LET normalized == resolve(dirpath)
            map == fileCache.readdirCache
            entries == IF readdirSync(disk).threw THEN <<>> ELSE readdirSync(disk).value
        IN  /\ Len(reads) < MaxReads
            /\ calls' = calls + 1
            /\ IF CacheHas(map, normalized)
               THEN /\ fileCache' = [fileCache EXCEPT !.hits = @ + 1]
                    /\ reads' = Append(reads,
                           [method |-> "readdir", normalized |-> normalized, pc |-> "returned",
                            io |-> 0, hit |-> TRUE, out |-> <<CacheGet(map, normalized)>>])
               ELSE /\ fileCache' = [fileCache EXCEPT
                                        !.misses = @ + 1,
                                        !.readdirCache = CacheSet(@, normalized, entries)]
                    /\ reads' = Append(reads,
                           [method |-> "readdir", normalized |-> normalized, pc |-> "returned",
                            io |-> 1, hit |-> FALSE, out |-> <<entries>>])
            /\ UNCHANGED <<otherThanCache, disk>>

\* Bun.file(normalized).exists() settles: exists stores and returns it; text
\* and json store and return null when there is no file, and read it otherwise.
ExistsSettles(i) ==
    LET read == reads[i]
        result == BunFileExists(disk)
    IN  /\ read.pc = "exists"
        /\ IF read.method = "exists"
           THEN /\ fileCache' = [fileCache EXCEPT
                                    !.existsCache = CacheSet(@, read.normalized, result)]
                /\ reads' = [reads EXCEPT ![i].pc = "returned", ![i].out = <<result>>]
           ELSE IF ~result
           THEN /\ fileCache' = [fileCache EXCEPT
                                    ![CacheOf(read.method)] = CacheSet(@, read.normalized, <<>>)]
                /\ reads' = [reads EXCEPT ![i].pc = "returned", ![i].out = <<<<>>>>]
           ELSE /\ reads' = [reads EXCEPT ![i].pc = "content", ![i].io = @ + 1]
                /\ UNCHANGED fileCache
        /\ UNCHANGED <<otherThanCache, disk, calls>>

\* file.text() or file.json() settles: the content is stored and returned, or
\* null when the read or the parse threw.
ContentSettles(i) ==
    LET read == reads[i]
        content == Fetched(read.method)
    IN  /\ read.pc = "content"
        /\ fileCache' = [fileCache EXCEPT
                            ![CacheOf(read.method)] = CacheSet(@, read.normalized, content)]
        /\ reads' = [reads EXCEPT ![i].pc = "returned", ![i].out = <<content>>]
        /\ UNCHANGED <<otherThanCache, disk, calls>>

\* clear(): every Map emptied, hits and misses set to 0.
ClearFileCache ==
    /\ fileCache' = createFileCache
    /\ calls' = 0
    /\ UNCHANGED <<otherThanCache, disk, reads>>

NextCache ==
    \/ CallRead
    \/ CallReaddir
    \/ \E i \in 1..Len(reads) : ExistsSettles(i)
    \/ \E i \in 1..Len(reads) : ContentSettles(i)

\* Reads through one cache while nothing on disk changes.
SpecCache == InitCache /\ [][NextCache]_vars

NextCacheClear ==
    \/ CallRead
    \/ CallReaddir
    \/ \E i \in 1..Len(reads) : ExistsSettles(i)
    \/ \E i \in 1..Len(reads) : ContentSettles(i)
    \/ ClearFileCache

\* The same reads, with clear() called at any moment.
SpecCacheClear == InitCache /\ [][NextCacheClear]_vars

(***************************************************************************)
(* signals: cleanup handlers and the SIGINT / SIGTERM listeners.  The code *)
(* between two awaits runs without interruption, and so does what follows *)
(* an await of a value that is already settled: a signal is handled only   *)
(* when the program waits for a cleanup function that is truly pending.    *)
(***************************************************************************)
\* Most cleanup functions the program has.
MaxHandlers == 2

\* Most signals delivered to the process.
MaxSignals == 2

EXIT_CODES == [SUCCESS |-> 0, VALIDATION_ERROR |-> 1, FATAL_ERROR |-> 2, SIGNAL_INTERRUPT |-> 130]

\* What a cleanup function does when called: it returns, it throws, or it
\* returns a promise that is pending and later fulfils or rejects.
CleanupKinds == {"returns", "throws", "fulfils later", "rejects later"}

CleanupFns == {[id |-> i, kind |-> k] : i \in 1..MaxHandlers, k \in CleanupKinds}

Pending(fn) == fn.kind \in {"fulfils later", "rejects later"}

\* [...cleanupHandlers].reverse()
RECURSIVE reverse(_)
reverse(xs) == IF xs = <<>> THEN <<>> ELSE <<xs[Len(xs)]>> \o reverse(SubSeq(xs, 1, Len(xs) - 1))

\* The loop of runCleanup from the i-th function on, as far as it goes without
\* waiting: the functions that returned or threw, and the index of the pending
\* one it stops at (past the end when the loop is over).
RECURSIVE runLoop(_, _, _)
runLoop(queue, i, done) ==
    IF i > Len(queue) THEN [done |-> done, at |-> i]
    ELSE IF Pending(queue[i]) THEN [done |-> done, at |-> i]
    ELSE runLoop(queue, i + 1, Append(done, queue[i].id))

InitSignals ==
    /\ RegistryIdle
    /\ scoringConfig = [mode |-> "weighted"]
    /\ AppIdle
    /\ OrgIdle
    /\ ClassifyIdle
    /\ TimeoutIdle
    /\ CacheIdle
    /\ SignalIdle
    /\ FetchIdle
    /\ RunAllIdle

\* setupSignalHandlers: installs the listeners once.
SetupSignalHandlers ==
    /\ exited = <<>>
    /\ handlersSetUp' = TRUE
    /\ UNCHANGED <<otherThanSignals, cleanupHandlers, isCleaningUp, cleaning, completed,
                   delivered, exited>>

\* onCleanup(fn), before any signal has arrived.
OnCleanup ==
    \E fn \in CleanupFns :
        /\ exited = <<>>
        /\ delivered = 0
        /\ \A i \in 1..Len(cleanupHandlers) : cleanupHandlers[i].id /= fn.id
        /\ cleanupHandlers' = Append(cleanupHandlers, fn)
        /\ UNCHANGED <<otherThanSignals, isCleaningUp, handlersSetUp, cleaning, completed,
                       delivered, exited>>

\* The function onCleanup returned: the handler is taken off the list.
Unregister ==
    \E i \in 1..Len(cleanupHandlers) :
        /\ exited = <<>>
        /\ delivered = 0
        /\ cleanupHandlers' = SubSeq(cleanupHandlers, 1, i - 1)
                              \o SubSeq(cleanupHandlers, i + 1, Len(cleanupHandlers))
        /\ UNCHANGED <<otherThanSignals, isCleaningUp, handlersSetUp, cleaning, completed,
                       delivered, exited>>

\* SIGINT or SIGTERM arrives: handler(signal) runs runCleanup and then
\* process.exit.  With isCleaningUp set runCleanup returns at once.
Signal ==
    \E signal \in {"SIGINT", "SIGTERM"} :
        /\ handlersSetUp
        /\ exited = <<>>
        /\ delivered < MaxSignals
        /\ delivered' = delivered + 1
        /\ IF isCleaningUp
           THEN /\ exited' = <<EXIT_CODES.SIGNAL_INTERRUPT>>
                /\ UNCHANGED <<isCleaningUp, cleaning, completed>>
           ELSE LET queue == reverse(cleanupHandlers)
                    loop == runLoop(queue, 1, <<>>)
                IN  /\ completed' = loop.done
                    /\ IF loop.at > Len(queue)
                       THEN /\ isCleaningUp' = FALSE
                            /\ cleaning' = <<>>
                            /\ exited' = <<EXIT_CODES.SIGNAL_INTERRUPT>>
                       ELSE /\ isCleaningUp' = TRUE
                            /\ cleaning' = <<[signal |-> signal, queue |-> queue, at |-> loop.at]>>
                            /\ UNCHANGED exited
        /\ UNCHANGED <<otherThanSignals, cleanupHandlers, handlersSetUp>>

\* The pending cleanup function settles: runCleanup goes on with the loop,
\* and when the loop is over clears the flag and its caller exits.
CleanupSettles ==
    /\ exited = <<>>
    /\ cleaning /= <<>>
    /\ LET run == cleaning[1]
           loop == runLoop(run.queue, run.at + 1, Append(completed, run.queue[run.at].id))
       IN  /\ completed' = loop.done
           /\ IF loop.at > Len(run.queue)
              THEN /\ isCleaningUp' = FALSE
                   /\ cleaning' = <<>>
                   /\ exited' = <<EXIT_CODES.SIGNAL_INTERRUPT>>
              ELSE /\ cleaning' = <<[run EXCEPT !.at = loop.at]>>
                   /\ UNCHANGED <<isCleaningUp, exited>>
    /\ UNCHANGED <<otherThanSignals, cleanupHandlers, handlersSetUp, delivered>>

NextSignals == SetupSignalHandlers \/ OnCleanup \/ Unregister \/ Signal \/ CleanupSettles

SpecSignals == InitSignals /\ [][NextSignals]_vars

(***************************************************************************)
(* fetch: fetchWithRetry.  Times are in milliseconds.  A timer fires when  *)
(* it is due, and the clock moves from one due time to the next.           *)
(***************************************************************************)
\* Most fetchWithRetry calls in one run.
MaxCalls == 2

\* How long a server that answers takes to answer (ms).
ResponseTime == 20

RATE_LIMITS == [NPM |-> 20, GITHUB |-> 5]

TIMEOUTS == [DEFAULT |-> 10000, NPM |-> 5000, GITHUB |-> 10000]

RETRY_CONFIG == [RETRIES |-> 3, INITIAL_DELAY |-> 1000, MAX_DELAY |-> 10000]

\* new URL(url).host
HostOf(url) ==
    IF url = "https://registry.npmjs.org/typescript/latest" THEN "registry.npmjs.org"
    ELSE "api.github.com"

\* The calls made: the npm registry with two retries from 8 s on, and the
\* GitHub API without retry at 5 requests per second.
FetchCalls ==
    {[url |-> "https://registry.npmjs.org/typescript/latest",
      options |-> [retries |-> 2, retryDelay |-> 8000]],
     [url |-> "https://api.github.com/repos/oven-sh/bun/releases/latest",
      options |-> [retries |-> 0, timeout |-> TIMEOUTS.GITHUB, rateLimit |-> RATE_LIMITS.GITHUB]]}

\* const { retries = ..., retryDelay = ..., timeout = ..., rateLimit = ... } = options
Destructured(fetchOptions) ==
    [retries |-> IF Has(fetchOptions, "retries") THEN fetchOptions.retries
                 ELSE RETRY_CONFIG.RETRIES,
     retryDelay |-> IF Has(fetchOptions, "retryDelay") THEN fetchOptions.retryDelay
                    ELSE RETRY_CONFIG.INITIAL_DELAY,
     timeout |-> IF Has(fetchOptions, "timeout") THEN fetchOptions.timeout
                 ELSE TIMEOUTS.DEFAULT,
     rateLimit |-> IF Has(fetchOptions, "rateLimit") THEN fetchOptions.rateLimit
                   ELSE RATE_LIMITS.NPM]

\* What an attempt ends with when the server answers or the connection fails.
Answers == {"200", "404", "429", "503", "network error"}

RECURSIVE Pow2(_)
Pow2(n) == IF n = 0 THEN 1 ELSE 2 * Pow2(n - 1)

Min(a, b) == IF a < b THEN a ELSE b

\* The delay before the next attempt without the cap of MAX_DELAY.
backoff_Uncapped(retryDelay, attempt) == retryDelay * Pow2(attempt)

\* Math.min(retryDelay * 2 ** attempt, RETRY_CONFIG.MAX_DELAY)
backoff(retryDelay, attempt) == Min(retryDelay * Pow2(attempt), RETRY_CONFIG.MAX_DELAY)

\* rateLimiters.get(host) || 0
LastRequest(host) == IF host \in DOMAIN rateLimiters THEN rateLimiters[host] ELSE 0

\* The top of the loop body: the abort timer is set and fetch is called; the
\* server answers after ResponseTime or not before the abort.
Request(call, hung) ==
    [call EXCEPT !.pc = "fetching",
                 !.hung = hung,
                 !.due = clock + (IF hung THEN call.timeout ELSE ResponseTime),
                 !.sent = Append(@, clock)]

\* The bottom of the loop body once lastError is set: sleep before the next
\* attempt, or, after the last one, return err(lastError).
Failed(call, failure) ==
    IF call.attempt < call.retries
    THEN [call EXCEPT !.pc = "backoff",
                      !.lastError = <<failure>>,
                      !.outcomes = Append(@, failure),
                      !.delays = Append(@, backoff(call.retryDelay, call.attempt)),
                      !.due = clock + backoff(call.retryDelay, call.attempt)]
    ELSE [call EXCEPT !.pc = "returned",
                      !.lastError = <<failure>>,
                      !.outcomes = Append(@, failure),
                      !.result = <<[ok |-> FALSE, error |-> failure]>>]

InitFetch ==
    /\ RegistryIdle
    /\ scoringConfig = [mode |-> "weighted"]
    /\ AppIdle
    /\ OrgIdle
    /\ ClassifyIdle
    /\ TimeoutIdle
    /\ CacheIdle
    /\ SignalIdle
    /\ RunAllIdle
    /\ FetchIdle

\* fetchWithRetry up to its first await: the rate limiter either sleeps or
\* stamps the host and the first request goes out.
FetchWithRetry ==
    \E args \in FetchCalls, hung \in BOOLEAN :
        LET url == args.url
            opts == Destructured(args.options)
            host == HostOf(url)
            now == clock
            lastRequest == LastRequest(host)
            call == [url |-> url, host |-> host, retries |-> opts.retries,
                     retryDelay |-> opts.retryDelay, timeout |-> opts.timeout,
                     rateLimit |-> opts.rateLimit, pc |-> "called", attempt |-> 0,
                     hung |-> FALSE, due |-> 0, lastError |-> <<>>, result |-> <<>>,
                     sent |-> <<>>, outcomes |-> <<>>, delays |-> <<>>]
        IN  /\ Len(fetches) < MaxCalls
            /\ IF (now - lastRequest) * opts.rateLimit < 1000
               THEN /\ ~hung
                    /\ fetches' = Append(fetches,
                           [call EXCEPT !.pc = "rate limited",
                                        !.due = now + ((1000 \div opts.rateLimit) - (now - lastRequest))])
                    /\ UNCHANGED rateLimiters
               ELSE /\ rateLimiters' = (host :> clock) @@ rateLimiters
                    /\ fetches' = Append(fetches, Request(call, hung))
            /\ UNCHANGED <<otherThanFetch, clock>>

\* The rate limiter's sleep is over: the host is stamped and the first
\* request goes out.
RateSleepOver(i) ==
    \E hung \in BOOLEAN :
        /\ fetches[i].pc = "rate limited"
        /\ fetches[i].due <= clock
        /\ rateLimiters' = (fetches[i].host :> clock) @@ rateLimiters
        /\ fetches' = [fetches EXCEPT ![i] = Request(@, hung)]
        /\ UNCHANGED <<otherThanFetch, clock>>

\* fetch settles: a 2xx response is returned, a 4xx other than 429 is
\* returned as an error, anything else is kept as lastError.
Answered(i) ==
    \E answer \in Answers :
        LET call == fetches[i]
        IN  /\ call.pc = "fetching"
            /\ ~call.hung
            /\ call.due <= clock
            /\ fetches' = [fetches EXCEPT ![i] =
                   CASE answer = "200" ->
                            [call EXCEPT !.pc = "returned",
                                         !.outcomes = Append(@, answer),
                                         !.result = <<[ok |-> TRUE, value |-> answer]>>]
                     [] answer = "404" ->
                            [call EXCEPT !.pc = "returned",
                                         !.outcomes = Append(@, answer),
                                         !.result = <<[ok |-> FALSE, error |-> "HTTP 404"]>>]
                     [] answer \in {"429", "503"} -> Failed(call, "HTTP " \o answer)
                     [] OTHER -> Failed(call, answer)]
            /\ UNCHANGED <<otherThanFetch, clock, rateLimiters>>

\* The abort timer fires on a request that has no answer: fetch rejects with
\* an AbortError.
Aborted(i) ==
    /\ fetches[i].pc = "fetching"
    /\ fetches[i].hung
    /\ fetches[i].due <= clock
    /\ fetches' = [fetches EXCEPT ![i] = Failed(@, "Request timeout")]
    /\ UNCHANGED <<otherThanFetch, clock, rateLimiters>>

\* The backoff sleep is over: the next attempt goes out.
BackoffOver(i) ==
    \E hung \in BOOLEAN :
        /\ fetches[i].pc = "backoff"
        /\ fetches[i].due <= clock
        /\ fetches' = [fetches EXCEPT ![i] = Request([@ EXCEPT !.attempt = @ + 1], hung)]
        /\ UNCHANGED <<otherThanFetch, clock, rateLimiters>>

Waiting == {i \in 1..Len(fetches) : fetches[i].pc /= "returned"}

\* Nothing is due: time passes until something is.
TimePasses ==
    /\ Waiting /= {}
    /\ \A i \in Waiting : fetches[i].due > clock
    /\ clock' = CHOOSE t \in {fetches[i].due : i \in Waiting} :
                    \A i \in Waiting : t <= fetches[i].due
    /\ UNCHANGED <<otherThanFetch, rateLimiters, fetches>>

NextFetch ==
    \/ FetchWithRetry
    \/ \E i \in 1..Len(fetches) : RateSleepOver(i)
    \/ \E i \in 1..Len(fetches) : Answered(i)
    \/ \E i \in 1..Len(fetches) : Aborted(i)
    \/ \E i \in 1..Len(fetches) : BackoffOver(i)
    \/ TimePasses

\* The event loop runs what is due and time passes; nothing obliges the
\* program to call fetchWithRetry.
SpecFetch ==
    /\ InitFetch
    /\ [][NextFetch]_vars
    /\ WF_vars(\E i \in 1..Len(fetches) : RateSleepOver(i))
    /\ WF_vars(\E i \in 1..Len(fetches) : Answered(i))
    /\ WF_vars(\E i \in 1..Len(fetches) : Aborted(i))
    /\ WF_vars(\E i \in 1..Len(fetches) : BackoffOver(i))
    /\ WF_vars(TimePasses)

(***************************************************************************)
(* CheckRegistry.runAllChecks.  The catalog, the adapters and the default  *)
(* runners are registered first; nothing is registered while the checks    *)
(* of an application run.                                                  *)
(***************************************************************************)
InitRunAll ==
    /\ RegistryIdle
    /\ scoringConfig = [mode |-> "weighted"]
    /\ AppIdle
    /\ OrgIdle
    /\ ClassifyIdle
    /\ TimeoutIdle
    /\ CacheIdle
    /\ SignalIdle
    /\ FetchIdle
    /\ RunAllIdle

\* registerCheck, while the catalog is built.
CatalogCheck ==
    \E check \in RegisteredChecks :
        /\ running = <<>>
        /\ checks' = MapSet(checks, check)
        /\ UNCHANGED <<adapters, defaultAdapters, ret, invoked, otherThanRegistry, running>>

\* registerAdapter, while the catalog is built.
CatalogAdapter ==
    \E config \in AdapterConfigs :
        LET adapter == createLanguageAdapter(config)
        IN  /\ running = <<>>
            /\ adapters' = (adapter.language :> adapter) @@ adapters
            /\ UNCHANGED <<checks, defaultAdapters, ret, invoked, otherThanRegistry, running>>

\* runAllChecks up to its first await: the applicable checks are listed.
RunAllChecks ==
    \E language \in Languages :
        /\ running = <<>>
        /\ running' = <<[language |-> language,
                         applicableChecks |-> getChecksForLanguage(language),
                         started |-> 0, results |-> <<>>, returned |-> FALSE]>>
        /\ UNCHANGED <<registryVars, otherThanRegistry>>

\* The loop calls runCheck for the next check once the result before it has
\* been pushed.
BeginCheck ==
    /\ running /= <<>>
    /\ running[1].started = Len(running[1].results)
    /\ running[1].started < Len(running[1].applicableChecks)
    /\ running' = <<[running[1] EXCEPT !.started = @ + 1]>>
    /\ UNCHANGED <<registryVars, otherThanRegistry>>

\* runCheck settles and its result is pushed.
CheckSettles ==
    \E behaviour \in RunnerBehaviours, elapsed \in 0..MaxElapsed :
        /\ running /= <<>>
        /\ running[1].started > Len(running[1].results)
        /\ LET check == running[1].applicableChecks[running[1].started]
               out == runCheck(check.id, running[1].language, behaviour, elapsed)
           IN  /\ out.kind = "returned"
               /\ running' = <<[running[1] EXCEPT !.results = Append(@, out.value)]>>
               /\ invoked' = out.invoked
               /\ ret' = [op |-> "runCheck", checkId |-> check.id,
                          language |-> running[1].language, behaviour |-> behaviour,
                          out |-> out]
        /\ UNCHANGED <<checks, adapters, defaultAdapters, otherThanRegistry>>

\* The loop is over: runAllChecks returns results.
ReturnResults ==
    /\ running /= <<>>
    /\ ~running[1].returned
    /\ running[1].started = Len(running[1].applicableChecks)
    /\ Len(running[1].results) = Len(running[1].applicableChecks)
    /\ running' = <<[running[1] EXCEPT !.returned = TRUE]>>
    /\ UNCHANGED <<registryVars, otherThanRegistry>>

NextRunAll ==
    CatalogCheck \/ CatalogAdapter \/ RunAllChecks \/ BeginCheck \/ CheckSettles \/ ReturnResults

SpecRunAll == InitRunAll /\ [][NextRunAll]_vars

(***************************************************************************)
(* Properties.                                                             *)
(***************************************************************************)
RanCheck == ret.op = "runCheck"

Registered(id) == \E i \in 1..Len(checks) : checks[i].id = id

TheCheck(id) == checks[CHOOSE i \in 1..Len(checks) : checks[i].id = id]

Returned == RanCheck /\ ret.out.kind = "returned"

\* C1: runCheck never raises: for every check id, registered or not, every
\* language and every runner behaviour it completes with a result; when no
\* runner can be resolved for an applicable check the result has pass = false
\* and its details name the check id and the language.
C1_RunCheckNeverRaises ==
    RanCheck =>
        /\ ret.out.kind = "returned"
        /\ (/\ Has(ret.out.value, "check")
            /\ ~isSkipped(ret.out.value)
            /\ ret.out.invoked = <<>>)
           => /\ ret.out.value.pass = FALSE
              /\ includes(ret.out.value.details, ret.checkId)
              /\ includes(ret.out.value.details, ret.language)

\* The runner the precedence of section 4.2 names for (checkId, language):
\* the adapter's, else the default runner, else the built-in one, else none.
Precedence(checkId, language) ==
    LET own == IF language \in DOMAIN adapters
               THEN AdapterGetRunner(adapters[language], checkId) ELSE <<>>
    IN  CASE own /= <<>> -> own
          [] own = <<>> /\ checkId \in DOMAIN defaultAdapters -> <<defaultAdapters[checkId]>>
          [] own = <<>> /\ checkId \notin DOMAIN defaultAdapters
             /\ Registered(checkId) /\ Has(TheCheck(checkId), "run") -> <<TheCheck(checkId).run>>
          [] OTHER -> <<>>

\* C2: after any sequence of registrations getRunner resolves in strict
\* precedence (adapter, default runner, built-in run, none), and the runner
\* runCheck invokes is the one so resolved: the adapter's runner wins over
\* the default runner table.
C2_ResolutionPrecedence ==
    /\ \A id \in CheckIds, l \in Languages : getRunner(id, l) = Precedence(id, l)
    /\ (RanCheck /\ invoked /= <<>>) => invoked = Precedence(ret.checkId, ret.language)

C2_AdapterOverridesDefault ==
    /\ RanCheck
    /\ ret.language \in DOMAIN adapters
    /\ AdapterGetRunner(adapters[ret.language], ret.checkId) /= <<>>
    /\ ret.checkId \in DOMAIN defaultAdapters
    /\ invoked = AdapterGetRunner(adapters[ret.language], ret.checkId)

Excluded(id, l) ==
    /\ Registered(id)
    /\ Has(TheCheck(id), "languages")
    /\ TheCheck(id).languages /= <<>>
    /\ \A i \in 1..Len(TheCheck(id).languages) : TheCheck(id).languages[i] /= l

\* C3: for a registered check whose allow-list is non-empty and does not
\* contain the application's language, runCheck invokes no runner and returns
\* pass = true, skipped = true.
C3_ApplicabilityGate ==
    (RanCheck /\ Excluded(ret.checkId, ret.language)) =>
        /\ invoked = <<>>
        /\ ret.out.kind = "returned"
        /\ ret.out.value.pass = TRUE
        /\ Has(ret.out.value, "skipped")
        /\ ret.out.value.skipped = TRUE

C3_GatedCheckRan ==
    /\ RanCheck
    /\ Excluded(ret.checkId, ret.language)
    /\ getRunner(ret.checkId, ret.language) /= <<>>
    /\ isSkipped(ret.out.value)

RunnerRaised == Returned /\ invoked /= <<>> /\ ret.behaviour.kind = "throws"

\* C4 as stated: when the resolved runner raises, the result has pass = false,
\* is not marked skipped, carries the error's message as details and has the
\* check definition attached.
C4_DetailsAreTheMessage ==
    RunnerRaised =>
        /\ ret.out.value.pass = FALSE
        /\ ~Has(ret.out.value, "skipped")
        /\ ret.out.value.details = <<ret.behaviour.message>>
        /\ ret.out.value.check = TheCheck(ret.checkId)

\* C4, amended: when the resolved runner raises, the result has pass = false,
\* is not marked skipped, has the check definition attached, and its details
\* are the message of the raised value when that is an Error and the fixed
\* text "Unknown error" when it is anything else.
C4_RaiseBecomesFailingResult ==
    RunnerRaised =>
        /\ ret.out.value.pass = FALSE
        /\ ~Has(ret.out.value, "skipped")
        /\ ret.behaviour.isError => ret.out.value.details = <<ret.behaviour.message>>
        /\ ~ret.behaviour.isError => ret.out.value.details = <<"Unknown error">>
        /\ ret.out.value.check = TheCheck(ret.checkId)

C4_RunnerRaisedAnError == RunnerRaised /\ ret.behaviour.isError

Scored == appScore /= <<>>

ResultsOfPillar(p) == {j \in 1..Len(results) : results[j].check.pillar = p}

CountedOfPillar(p) ==
    {j \in ResultsOfPillar(p) : ~(Has(results[j], "skipped") /\ results[j].skipped)}

\* C5: calculatePillarScores yields exactly one PillarScore for every pillar
\* with at least one result; total is the number of that pillar's results not
\* marked skipped, passed the number of those with pass = true, and score is
\* passed / total * 100 when total > 0 and 0 otherwise, so 0 <= passed <=
\* total and 0 <= score <= 100.
C5_PillarScoreCounts ==
    Scored =>
        LET ps == appScore[1].pillars
        IN  /\ \A p \in Pillars :
                   Cardinality({i \in 1..Len(ps) : ps[i].pillar = p})
                       = IF ResultsOfPillar(p) /= {} THEN 1 ELSE 0
            /\ \A i \in 1..Len(ps) :
                   /\ ps[i].total = Cardinality(CountedOfPillar(ps[i].pillar))
                   /\ ps[i].passed
                          = Cardinality({j \in CountedOfPillar(ps[i].pillar) : results[j].pass})
                   /\ ps[i].total > 0 => ps[i].score.n * ps[i].total = ps[i].passed * 100 * ps[i].score.d
                   /\ ps[i].total = 0 => ps[i].score.n = 0
                   /\ 0 <= ps[i].passed /\ ps[i].passed <= ps[i].total
                   /\ 0 <= ps[i].score.n /\ ps[i].score.n <= 100 * ps[i].score.d

C5_PillarWithSkippedResult ==
    /\ Scored
    /\ \E i \in 1..Len(appScore[1].pillars) :
           /\ appScore[1].pillars[i].total = 2
           /\ appScore[1].pillars[i].passed = 1
           /\ Len(appScore[1].pillars[i].checks) = 3

\* C6: adding a result with skipped = true never lowers a pillar's score or
\* level and never lowers the application's overall score or level, in any
\* scoring mode and for any pillar the skipped result falls in, a pillar
\* with no other result included.
C6_SkippedNeverPenalizes ==
    baseline /= <<>> =>
        LET before == baseline[1]
            after == appScore[1]
        IN  /\ FracGE(after.score, before.score)
            /\ after.level >= before.level
            /\ \A i \in 1..Len(before.pillars) :
                   \E j \in 1..Len(after.pillars) :
                       /\ after.pillars[j].pillar = before.pillars[i].pillar
                       /\ FracGE(after.pillars[j].score, before.pillars[i].score)
                       /\ after.pillars[j].level >= before.pillars[i].level

\* The threshold table of section 4.5, on n / d.
Classify(s) ==
    CASE s.n >= 80 * s.d -> 5
      [] s.n < 80 * s.d /\ s.n >= 65 * s.d -> 4
      [] s.n < 65 * s.d /\ s.n >= 50 * s.d -> 3
      [] s.n < 50 * s.d /\ s.n >= 35 * s.d -> 2
      [] OTHER -> 1

\* C7: for every score in [0, 100] scoreToLevel returns 5 from 80, 4 from 65,
\* 3 from 50, 2 from 35 and 1 below; it is monotonically non-decreasing, with
\* scoreToLevel(0) = 1 and scoreToLevel(100) = 5.
C7_ThresholdTable ==
    levelOut /= <<>> =>
        /\ levelOut[1] = Classify(scoreArg)
        /\ \A lower \in ClassifiedScores :
               FracGE(scoreArg, lower) => scoreToLevel(lower) <= levelOut[1]
        /\ scoreArg.n = 0 => levelOut[1] = 1
        /\ scoreArg.n = 100 * scoreArg.d => levelOut[1] = 5

C7_ClassifiedAtAThreshold == levelOut = <<4>> /\ scoreArg = [n |-> 65, d |-> 1]

\* C8: level is never set independently of the score at the pillar layers:
\* every PillarScore calculatePillarScores produced has level =
\* classify(score), and every AggregatedPillarScore aggregateOrgScore
\* produced has level = classify(percentage).
C8_LevelDerivedFromScore ==
    /\ \A a \in 1..Len(appScores) : \A i \in 1..Len(appScores[a].pillars) :
           appScores[a].pillars[i].level = Classify(appScores[a].pillars[i].score)
    /\ orgScore /= <<>> =>
           \A i \in 1..Len(orgScore[1].pillars) :
               orgScore[1].pillars[i].level = Classify(orgScore[1].pillars[i].percentage)

C8_HalfTheAppsPass ==
    /\ orgScore /= <<>>
    /\ \E i \in 1..Len(orgScore[1].pillars) :
           /\ orgScore[1].pillars[i].numerator = 1
           /\ orgScore[1].pillars[i].denominator = 2
           /\ orgScore[1].pillars[i].level = 3
           /\ Classify(orgScore[1].pillars[i].averageScore) /= 3

\* C9: in strict mode, for a non-empty pillar set and whatever weight table
\* is configured, the overall level is the minimum of the pillar levels; it
\* is not derived from the reported mean score.
C9_StrictLevelIsMinimum ==
    (Scored /\ scoringConfig.mode = "strict" /\ appScore[1].pillars /= <<>>) =>
        /\ \E i \in 1..Len(appScore[1].pillars) : appScore[1].level = appScore[1].pillars[i].level
        /\ \A i \in 1..Len(appScore[1].pillars) : appScore[1].level <= appScore[1].pillars[i].level

C9_LevelBelowTheMean ==
    /\ Scored
    /\ scoringConfig.mode = "strict"
    /\ Has(scoringConfig, "pillarWeights")
    /\ Len(appScore[1].pillars) = 2
    /\ appScore[1].level = 1
    /\ Classify(appScore[1].score) = 3

\* C10: for the same non-empty pillar input and any configured weight table,
\* the overall level of weighted mode and the overall level of average mode
\* are each at least the overall level of strict mode.
C10_WeightedAndAverageAtLeastStrict ==
    (Scored /\ appScore[1].pillars /= <<>> /\ scoringConfig.mode /= "strict") =>
        appScore[1].level
            >= calculateAppScore("app", results, [scoringConfig EXCEPT !.mode = "strict"]).level

EqualWeights ==
    /\ Scored
    /\ scoringConfig.mode = "weighted"
    /\ Has(scoringConfig, "pillarWeights")
    /\ \A p, q \in Pillars :
           WeightOf(MergedWeights(scoringConfig), p) = WeightOf(MergedWeights(scoringConfig), q)

C12_LevelIsClassOfReportedScore ==
    (Scored /\ appScore[1].pillars /= <<>> /\ scoringConfig.mode \in {"weighted", "average"}) =>
        appScore[1].level = Classify(appScore[1].score)

TestingPillar == FindPillar(appScore[1].pillars, "testing")[1]

\* Scenario A of section 9: the pillar "testing" has four results, one
\* skipped, two passing and one failing.
ScenarioA ==
    /\ Scored
    /\ Cardinality(ResultsOfPillar("testing")) = 4
    /\ Cardinality(CountedOfPillar("testing")) = 3
    /\ Cardinality({j \in CountedOfPillar("testing") : results[j].pass}) = 2

\* C13 as stated: in Scenario A the pillar is scored total = 3, passed = 2,
\* score 66.7 to one decimal, and level 3.
C13_ScenarioA_Level3 ==
    ScenarioA =>
        /\ TestingPillar.total = 3
        /\ TestingPillar.passed = 2
        /\ RoundToTenth(TestingPillar.score) = Frac(667, 10)
        /\ TestingPillar.level = 3

\* C13, amended: in Scenario A the pillar is scored total = 3, passed = 2,
\* score 66.7 to one decimal, and level 4 (65 <= score < 80).
C13_ScenarioA_Level4 ==
    ScenarioA =>
        /\ TestingPillar.total = 3
        /\ TestingPillar.passed = 2
        /\ RoundToTenth(TestingPillar.score) = Frac(667, 10)
        /\ TestingPillar.level = 4

C13_ScenarioAScored == ScenarioA /\ TestingPillar.score = Frac(200, 3)

Aggregated == orgScore /= <<>>

\* C14: empty input resolves to the minimum well-defined result: each of the
\* three overall calculators returns level 1 and score 0 for an empty pillar
\* list, for an application and for the aggregated pillars alike, and
\* aggregateOrgScore on an empty application list returns apps = [],
\* pillars = [], level 1, score 0, totalChecks 0 and totalPassed 0.
C14_EmptyInputIsLevelOne ==
    /\ \A a \in 1..Len(appScores) :
           appScores[a].pillars = <<>> => appScores[a].level = 1 /\ appScores[a].score = Zero
    /\ Aggregated =>
           /\ orgScore[1].pillars = <<>> => orgScore[1].level = 1 /\ orgScore[1].score = Zero
           /\ orgScore[1].apps = <<>> =>
                  orgScore[1] = [apps |-> <<>>, pillars |-> <<>>, level |-> 1, score |-> Zero,
                                 mode |-> scoringConfig.mode, totalChecks |-> 0, totalPassed |-> 0]

C14_NothingToAggregate ==
    /\ Aggregated
    /\ appScores = <<>>
    /\ orgScore[1].level = 1
    /\ scoringConfig.mode = "average"

AppsReporting(p) ==
    {a \in 1..Len(appScores) : \E i \in 1..Len(appScores[a].pillars) : appScores[a].pillars[i].pillar = p}

ScoreIn(a, p) ==
    appScores[a].pillars[CHOOSE i \in 1..Len(appScores[a].pillars) :
                             appScores[a].pillars[i].pillar = p].score

Threshold == IF Has(scoringConfig, "passThreshold") THEN scoringConfig.passThreshold ELSE 80

\* C15: for every pillar some application reports, aggregateOrgScore emits
\* exactly one AggregatedPillarScore; its denominator is the number of
\* applications reporting the pillar, its numerator the number of those whose
\* pillar score is at least the pass threshold (80 unless configured), its
\* percentage numerator / denominator * 100; so 0 <= numerator <= denominator
\* <= number of applications, and denominator >= 1.
C15_NumeratorAndDenominator ==
    Aggregated =>
        LET agg == orgScore[1].pillars
        IN  /\ \A p \in Pillars :
                   Cardinality({i \in 1..Len(agg) : agg[i].pillar = p})
                       = IF AppsReporting(p) /= {} THEN 1 ELSE 0
            /\ \A i \in 1..Len(agg) :
                   /\ agg[i].denominator = Cardinality(AppsReporting(agg[i].pillar))
                   /\ agg[i].numerator
                          = Cardinality({a \in AppsReporting(agg[i].pillar) :
                                FracGE(ScoreIn(a, agg[i].pillar), Frac(Threshold, 1))})
                   /\ agg[i].percentage.n * agg[i].denominator
                          = agg[i].numerator * 100 * agg[i].percentage.d
                   /\ 0 <= agg[i].numerator
                   /\ agg[i].numerator <= agg[i].denominator
                   /\ agg[i].denominator <= Len(appScores)
                   /\ agg[i].denominator >= 1

C15_ScoreAtTheThreshold ==
    /\ Aggregated
    /\ Len(appScores) = 3
    /\ \E i \in 1..Len(orgScore[1].pillars) :
           /\ orgScore[1].pillars[i].denominator = 2
           /\ orgScore[1].pillars[i].numerator = 1
           /\ \E a \in AppsReporting(orgScore[1].pillars[i].pillar) :
                  ScoreIn(a, orgScore[1].pillars[i].pillar) = Frac(Threshold, 1)

RECURSIVE SumOfScoresIn(_, _)
SumOfScoresIn(as, p) ==
    IF as = {} THEN Zero
    ELSE LET a == CHOOSE x \in as : TRUE
         IN  FracAdd(SumOfScoresIn(as \ {a}, p), ScoreIn(a, p))

\* The mean of the applications' scores for pillar p.
MeanScore(p) == FracOver(SumOfScoresIn(AppsReporting(p), p), Cardinality(AppsReporting(p)))

\* The pillar list of the aggregation with the given score for each pillar.
PillarList(scoreOf(_)) ==
    [i \in 1..Len(orgScore[1].pillars) |->
        [pillar |-> orgScore[1].pillars[i].pillar,
         score |-> scoreOf(orgScore[1].pillars[i].pillar),
         level |-> scoreToLevel(scoreOf(orgScore[1].pillars[i].pillar))]]

RoundedMeanScore(p) == RoundToTenth(MeanScore(p))

\* C16 as stated: the repo-wide score and level are those of the
\* per-application overall scorer, in the same mode and with the same weight
\* table, on the pillar list whose score for each pillar is the mean of the
\* applications' scores for that pillar.
C16_OverallFromMeans ==
    (Aggregated /\ appScores /= <<>>) =>
        LET r == OverallScore(PillarList(MeanScore), scoringConfig)
        IN  orgScore[1].score = r.score /\ orgScore[1].level = r.level

\* C16, amended: the repo-wide score and level are those of the
\* per-application overall scorer, in the same mode and with the same weight
\* table, on the pillar list whose score for each pillar is the mean of the
\* applications' scores for that pillar rounded to one decimal.
C16_OverallFromRoundedMeans ==
    (Aggregated /\ appScores /= <<>>) =>
        LET r == OverallScore(PillarList(RoundedMeanScore), scoringConfig)
        IN  orgScore[1].score = r.score /\ orgScore[1].level = r.level

C16_MeanNeedsRounding ==
    /\ Aggregated
    /\ Len(orgScore[1].pillars) = 2
    /\ \E i \in 1..2 :
           orgScore[1].pillars[i].averageScore /= MeanScore(orgScore[1].pillars[i].pillar)
    /\ orgScore[1].level >= 4

\* The check results of all the applications, as (application, position).
ResultsOfRun == {<<a, j>> \in (1..Len(appScores)) \X (1..MaxOrgTotal) : j <= Len(appScores[a].checks)}

CountedOfRun ==
    {x \in ResultsOfRun :
        ~(Has(appScores[x[1]].checks[x[2]], "skipped") /\ appScores[x[1]].checks[x[2]].skipped)}

\* C17: totalChecks is the number of check results not marked skipped over
\* all the applications and totalPassed the number of those with pass = true;
\* skipped results count in neither, so totalPassed <= totalChecks.
C17_TalliesExcludeSkipped ==
    Aggregated =>
        /\ orgScore[1].totalChecks = Cardinality(CountedOfRun)
        /\ orgScore[1].totalPassed
               = Cardinality({x \in CountedOfRun : appScores[x[1]].checks[x[2]].pass})
        /\ orgScore[1].totalPassed <= orgScore[1].totalChecks

C17_SkippedAmongTheResults ==
    /\ Aggregated
    /\ Len(appScores) = 2
    /\ Cardinality(ResultsOfRun) = 4
    /\ orgScore[1].totalChecks = 2
    /\ orgScore[1].totalPassed = 1

Recommended == recommendations /= <<>>

\* The results that failed and were not skipped, by position in results.
FailedFindings ==
    {j \in 1..Len(results) :
        ~results[j].pass /\ ~(Has(results[j], "skipped") /\ results[j].skipped)}

PositionOf(id) == CHOOSE j \in 1..Len(results) : results[j].check.id = id

\* pillarWeight * (6 - checkLevel) of the result at position j, in tenths.
ImpactOf(j) == DEFAULT_PILLAR_WEIGHTS[results[j].check.pillar] * (6 - results[j].check.level)

\* The order in which getTopRecommendations reads its input: the pillars of
\* the AppScore in their order, and each pillar's results in theirs.
ReadBefore(i, j) ==
    \/ indexOf(pillarOrder, results[i].check.pillar) < indexOf(pillarOrder, results[j].check.pillar)
    \/ results[i].check.pillar = results[j].check.pillar /\ i < j

RankedBefore(i, j) ==
    \/ ImpactOf(i) > ImpactOf(j)
    \/ ImpactOf(i) = ImpactOf(j) /\ ReadBefore(i, j)

C20_LastWriteWins ==
    /\ \A i, j \in 1..Len(getAllChecks) :
           getAllChecks[i].id = getAllChecks[j].id => i = j
    /\ ret.op = "registerCheck" =>
           ret.kind = "returned" /\ getCheck(ret.check.id) = <<ret.check>>
    /\ ret.op = "registerChecks" =>
           /\ ret.kind = "returned"
           /\ \A i \in 1..Len(ret.batch) :
                  (\A j \in (i + 1)..Len(ret.batch) : ret.batch[j].id /= ret.batch[i].id)
                      => getCheck(ret.batch[i].id) = <<ret.batch[i]>>

C20_StubReplaced ==
    /\ ret.op = "registerChecks"
    /\ Len(ret.batch) = 2
    /\ ret.batch[1].id = ret.batch[2].id
    /\ ~Has(ret.batch[1], "run")
    /\ Has(ret.batch[2], "run")
    /\ Len(checks) = 2
    /\ getCheck(ret.batch[2].id) = <<ret.batch[2]>>

PastTheGate == Returned /\ ~Excluded(ret.checkId, ret.language)

\* C21: every result runCheck returns after the applicability gate has
\* durationMs set: when the runner returned a passing result, when it returned
\* a failing result, when it raised, and when no runner could be resolved.
C21_DurationAlwaysAttached ==
    PastTheGate => Has(ret.out.value, "durationMs")

TimedOut(i) == i <= Len(waits) /\ waits[i].race = "rejected: Timeout"

ValueOnDisk(method) ==
    CASE method = "exists" -> disk.file /= "absent"
      [] method = "text" ->
             CASE disk.file = "json" -> <<"{\"name\": \"app\"}">>
               [] disk.file = "text" -> <<"# app">>
               [] OTHER -> <<>>
      [] method = "json" -> IF disk.file = "json" THEN <<[name |-> "app"]>> ELSE <<>>
      [] method = "readdir" -> IF disk.dir = "present" THEN <<"index.ts", "lib">> ELSE <<>>

KeyOf(method) == IF method = "readdir" THEN DirPath ELSE FilePath

Cached(method) == CacheHas(fileCache[CacheOf(method)], KeyOf(method))

Entry(method) == CacheGet(fileCache[CacheOf(method)], KeyOf(method))

\* C23: with the disk unchanged and reads of one key interleaved in any way,
\* every read that has returned returned the value on disk; every entry in
\* the cache is that value, and a read that missed has left one; a read that
\* found an entry performed no I/O; a read started while an entry exists is
\* such a read; and an entry, once there, stays and keeps its value.
C23_ConcurrentReadsAgree ==
    /\ [](\A i \in 1..Len(reads) :
            /\ reads[i].pc = "returned" =>
                   /\ reads[i].out = <<ValueOnDisk(reads[i].method)>>
                   /\ Cached(reads[i].method)
            /\ reads[i].hit => reads[i].io = 0 /\ reads[i].pc = "returned")
    /\ [](\A method \in ReadMethods : Cached(method) => Entry(method) = ValueOnDisk(method))
    /\ [][\A method \in ReadMethods :
            Cached(method) =>
                /\ Cached(method)'
                /\ Entry(method)' = Entry(method)
                /\ (Len(reads') > Len(reads) /\ reads'[Len(reads')].method = method)
                       => reads'[Len(reads')].hit /\ fileCache'.misses = fileCache.misses]_vars

C23_OverlappingFirstReads ==
    /\ disk.file = "text"
    /\ Len(reads) = 3
    /\ \A i \in 1..3 : reads[i].method = "text" /\ reads[i].pc = "returned"
                       /\ reads[i].out = <<<<"# app">>>>
    /\ reads[1].io = 2 /\ reads[2].io = 2
    /\ reads[3].hit
    /\ stats.misses = 2 /\ stats.hits = 1 /\ stats.textCached = 1

CachedEntries ==
    stats.existsCached + stats.textCached + stats.jsonCached + stats.readdirCached

\* C29: under any interleaving of reads and clear(), the number of cached
\* entries stats() reports is at most the number of misses counted since the
\* last clear(), and hits + misses is the number of read calls started since
\* the last clear().
C29_StatsConsistent ==
    /\ CachedEntries <= stats.misses
    /\ stats.hits + stats.misses = calls

\* The runner section 4.1 gives an adapter for an id: its own, else the
\* shared one unless the id is excluded, else none.
OwnThenShared(config, id) ==
    CASE id \in DOMAIN config.runners -> <<config.runners[id]>>
      [] id \notin DOMAIN config.runners /\ id \in DOMAIN sharedChecks
         /\ (\A k \in 1..Len(config.excludeSharedChecks) : config.excludeSharedChecks[k] /= id)
             -> <<sharedChecks[id]>>
      [] OTHER -> <<>>

AdapterIds == CheckIds \cup {"license-exists"}

\* C24: for every adapter createLanguageAdapter built and the registry holds,
\* getRunner(id) is the language-specific runner when there is one, else the
\* shared runner unless the id is in excludeSharedChecks, else none; and
\* supportedChecks() lists each id for which getRunner returns a runner, no
\* other id, and none twice.
C24_AdapterResolvesAndEnumerates ==
    \A l \in DOMAIN adapters :
        LET adapter == adapters[l]
            listed == supportedChecks(adapter)
        IN  /\ \A id \in AdapterIds : AdapterGetRunner(adapter, id) = OwnThenShared(adapter, id)
            /\ \A id \in AdapterIds :
                   includes(listed, id) <=> AdapterGetRunner(adapter, id) /= <<>>
            /\ \A i, j \in 1..Len(listed) : listed[i] = listed[j] => i = j

C24_OverriddenSharedCheck ==
    /\ "go" \in DOMAIN adapters
    /\ "readme-exists" \in DOMAIN adapters["go"].runners
    /\ supportedChecks(adapters["go"]) = <<"readme-exists">>
    /\ "python" \in DOMAIN adapters
    /\ supportedChecks(adapters["python"]) = <<>>
    /\ RanCheck /\ ret.language = "go" /\ invoked = <<"go:readme-exists">>

RECURSIVE LastFirst(_)
LastFirst(hs) == IF hs = <<>> THEN <<>> ELSE <<hs[Len(hs)].id>> \o LastFirst(SubSeq(hs, 1, Len(hs) - 1))

\* C25: process.exit is called only when every registered cleanup handler
\* has run to completion, the last registered first, a throwing handler
\* included: whatever signals arrive and whenever they arrive.
C25_CleanupBeforeExit ==
    exited /= <<>> => completed = LastFirst(cleanupHandlers)

Retryable == {"HTTP 429", "HTTP 503", "network error", "Request timeout"}

\* min(retryDelay * 2^attempt, MAX_DELAY), attempt counted from 0.
ExpectedDelay(call, attempt) ==
    LET grown == call.retryDelay * (2 ^ attempt)
    IN  IF grown > RETRY_CONFIG.MAX_DELAY THEN RETRY_CONFIG.MAX_DELAY ELSE grown

C27_RequestsSpacedPerHost ==
    \A i, j \in 1..Len(fetches) :
        \A a \in 1..Len(fetches[i].sent), b \in 1..Len(fetches[j].sent) :
            (/\ <<i, a>> /= <<j, b>>
             /\ fetches[i].host = fetches[j].host
             /\ fetches[i].rateLimit = fetches[j].rateLimit
             /\ fetches[i].sent[a] <= fetches[j].sent[b])
                => (fetches[j].sent[b] - fetches[i].sent[a]) * fetches[i].rateLimit >= 1000

\* A registered check applies to a language when it has no allow-list, an
\* empty one, or one that names the language.
AppliesTo(check, language) ==
    \/ "languages" \notin DOMAIN check
    \/ check.languages = <<>>
    \/ \E k \in 1..Len(check.languages) : check.languages[k] = language

RECURSIVE ApplicableInOrder(_, _)
ApplicableInOrder(catalog, language) ==
    IF catalog = <<>> THEN <<>>
    ELSE ApplicableInOrder(SubSeq(catalog, 1, Len(catalog) - 1), language)
         \o (IF AppliesTo(catalog[Len(catalog)], language)
             THEN <<catalog[Len(catalog)]>> ELSE <<>>)

\* C28: runAllChecks returns one result for each registered check that
\* applies to the application's language, in catalog order, and none for a
\* check whose allow-list excludes the language; a check is started only
\* when the result of the one before it is there; and a failing result or a
\* raising runner does not keep the checks after it from running.
C28_OneResultPerApplicableCheck ==
    running /= <<>> =>
        LET run == running[1]
            expected == ApplicableInOrder(checks, run.language)
        IN  /\ run.started <= Len(run.results) + 1
            /\ Len(run.results) <= run.started
            /\ \A i \in 1..Len(run.results) :
                   /\ i <= Len(expected)
                   /\ run.results[i].check = expected[i]
                   /\ ~(Has(run.results[i], "skipped")
                        /\ run.results[i].details = <<"Not applicable to", run.language>>)
            /\ run.returned => Len(run.results) = Len(expected)
            /\ (~run.returned /\ Len(run.results) = run.started /\ run.started < Len(expected))
                   => ENABLED BeginCheck

C28_RaisedThenNextRan ==
    /\ running /= <<>>
    /\ running[1].returned
    /\ Len(checks) = 2
    /\ Len(running[1].results) = 2
    /\ ~running[1].results[1].pass
    /\ running[1].results[1].details = <<"Timeout">>
    /\ running[1].results[2].pass
    /\ running[1].results[2].check.id = "readme-exists"

C28_ExcludedCheckLeftOut ==
    /\ running /= <<>>
    /\ running[1].returned
    /\ Len(checks) = 2
    /\ Len(running[1].results) = 1
    /\ running[1].results[1].check = checks[2]

SingleApplication == Aggregated /\ Len(appScores) = 1

\* The application's PillarScore for the pillar of an aggregated pillar.
OnlyAppPillar(p) ==
    appScores[1].pillars[CHOOSE i \in 1..Len(appScores[1].pillars) :
                             appScores[1].pillars[i].pillar = p]

\* C30 as stated: for an organization of one application, each aggregated
\* pillar's level equals the application's PillarScore level for that pillar,
\* whatever the pillar score and the pass threshold.
C30_SingleAppLevelsAgree ==
    SingleApplication =>
        \A i \in 1..Len(orgScore[1].pillars) :
            orgScore[1].pillars[i].level = OnlyAppPillar(orgScore[1].pillars[i].pillar).level

\* C30, amended: for an organization of one application, each aggregated
\* pillar has denominator 1 and level 5 when the application's pillar score
\* is at least the pass threshold, level 1 otherwise; it equals the
\* application's PillarScore level exactly when the score is at least both
\* the threshold and 80, or below both the threshold and 35.
C30_SingleAppLevelIsPassOrFail ==
    SingleApplication =>
        /\ Len(orgScore[1].pillars) = Len(appScores[1].pillars)
        /\ \A i \in 1..Len(orgScore[1].pillars) :
               LET agg == orgScore[1].pillars[i]
                   own == OnlyAppPillar(agg.pillar)
                   passes == FracGE(own.score, Frac(Threshold, 1))
               IN  /\ agg.denominator = 1
                   /\ agg.level = IF passes THEN 5 ELSE 1
                   /\ (agg.level = own.level) <=>
                          \/ passes /\ FracGE(own.score, Frac(80, 1))
                          \/ ~passes /\ ~FracGE(own.score, Frac(35, 1))

\* One application, threshold 50, a pillar scoring 50 (level 3): it
\* aggregates to 1 of 1, level 5.
C30_HalfPassingPillarCounted ==
    /\ SingleApplication
    /\ Threshold = 50
    /\ \E i \in 1..Len(orgScore[1].pillars) :
           /\ OnlyAppPillar(orgScore[1].pillars[i].pillar).score = Frac(50, 1)
           /\ OnlyAppPillar(orgScore[1].pillars[i].pillar).level = 3
           /\ orgScore[1].pillars[i].numerator = 1
           /\ orgScore[1].pillars[i].level = 5

====
